---- MODULE Spec2Model ----
(***************************************************************************)
(* Model of the alert-governance, data-fetch, universe and detection core  *)
(* of the Binance momentum monitor (binance_momentum_monitor/src).         *)
(*                                                                         *)
(*   SpecDB     the operations of AlertDeduplicationDB, called directly    *)
(*   SpecAlerts AlertManager.send_alert on top of the store, with the      *)
(*              notifier as its environment and graceful restarts          *)
(*   SpecConc   two threads running store operations under db.lock         *)
(*   SpecRate   BinanceRestClient._check_rate_limit behind the four fetch  *)
(*              operations                                                 *)
(*   SpecFetch  the four fetch operations under every argument and every   *)
(*              answer of the exchange, inside api_call.wrapper            *)
(*   SpecUniverse  SymbolUniverse.get_liquid_perpetuals on top of the      *)
(*              fetch operations, with its readers                         *)
(*   SpecDetector  MomentumDetector.analyze_symbol on top of the fetch     *)
(*              operations                                                 *)
(*                                                                         *)
(* Time.  The store stamps rows with SQLite's CURRENT_TIMESTAMP and the    *)
(* manager reads datetime.now(); both are modelled by the one wall clock   *)
(* `now`, counted in ticks.  TicksPerDay and TicksPerMinute say how many   *)
(* ticks the model spends on a day of retention and on a minute of         *)
(* cooldown; SQLite compares whole seconds, so a tick is also the          *)
(* resolution at which two timestamps can be told apart.                   *)
(***************************************************************************)
EXTENDS Integers, Sequences, FiniteSets, TLC

VARIABLES
    now,                \* wall clock of the store and of the alert manager
    alerts,             \* rows of the table `alerts` (deduplication.py:6-18)
    db_op,              \* observation: the last store operation called directly
    cooldown_minutes,   \* AlertManager.cooldown_minutes
    last_alert_times,   \* AlertManager.last_alert_times: key -> instant
    pc,                 \* position of the caller inside send_alert
    call,               \* observation: the send_alert call in progress or last finished
    entry,              \* observation: store and cooldown map when that call began
    delivered,          \* observation: successful notifier deliveries per triple
    purged,             \* observation: per triple, how often cleanup deleted its row
    last_delivery,      \* observation: (symbol, timeframe) -> instant the last delivering
                        \* send_alert of this process returned
    lock,               \* AlertDeduplicationDB.lock: the thread holding it, or 0
    tpc,                \* position of each thread inside its store operation
    top,                \* the store operation each thread runs
    tres,               \* observation: what each thread's statement did, and when
    order,              \* observation: the threads in the order their statements ran
    clock,              \* time.time() of the REST client, in seconds
    rate_limit,         \* BinanceRestClient.rate_limit
    request_times,      \* BinanceRestClient.request_times
    issued,             \* observation: the instants at which calls left _check_rate_limit
    fetch,              \* observation: the last fetch operation
    symbols,            \* SymbolUniverse.symbols: symbol -> SymbolInfo
    liquid_symbols,     \* SymbolUniverse.liquid_symbols
    last_update,        \* SymbolUniverse.last_update
    cache_ttl,          \* SymbolUniverse.cache_ttl, in seconds
    min_hourly_volume,  \* SymbolUniverse.min_hourly_volume
    upc,                \* position of the caller inside get_liquid_perpetuals
    ucall,              \* observation: the get_liquid_perpetuals call in progress or
                        \* last finished
    volume_window_hours,    \* MomentumDetector.volume_window_hours
    volume_threshold,       \* MomentumDetector.volume_threshold
    price_threshold,        \* MomentumDetector.price_threshold
    dpc,                \* position of the caller inside analyze_symbol
    dcall,              \* observation: the analyze_symbol call in progress or last
                        \* finished
    spc,                \* position of MomentumScanner.run
    scanner_symbols,    \* MomentumScanner.symbols, the scan list
    scanned,            \* the symbols scan_symbol was called with in the running
                        \* cycle, in their order
    scall,              \* observation: the last scan_symbol call, or how the cycle ended
    analyzed,           \* observation: the symbols ever passed to analyze_symbol
    alerted,            \* observation: the symbols ever passed to send_alert
    config,             \* the Config object at hand
    cfg,                \* observation: the last operation on it and how it ended
    collector,          \* MetricsCollector: total_calls and total_errors
    wcall,              \* observation: the last call through api_call.wrapper
    startup,            \* position of main() and what MomentumScanner(config) built
    llock,              \* BinanceRestClient.lock: the thread that holds it, or 0
    lpc,                \* position of each thread inside _check_rate_limit
    lcall,              \* observation: what each thread's call in progress read and did
    ldone,              \* the calls of _check_rate_limit each thread has finished
    cpc,                \* position of each thread inside AlertManager.send_alert
    ccall,              \* observation: each thread's send_alert call
    notified            \* observation: the signals the notifier was invoked with

dbVars  == <<now, alerts, db_op>>
mgrVars == <<cooldown_minutes, last_alert_times, pc, call, entry, delivered,
             purged, last_delivery>>
concVars == <<lock, tpc, top, tres, order>>
rateVars == <<clock, rate_limit, request_times, issued, fetch>>
univVars == <<symbols, liquid_symbols, last_update, cache_ttl, min_hourly_volume,
              upc, ucall>>
detVars == <<volume_window_hours, volume_threshold, price_threshold, dpc, dcall>>
scanVars == <<spc, scanner_symbols, scanned, scall, analyzed, alerted>>
cfgVars == <<config, cfg>>
wrapVars == <<collector, wcall>>
startVars == <<startup>>
limVars == <<llock, lpc, lcall, ldone>>
sendVars == <<cpc, ccall, notified>>
vars    == <<dbVars, mgrVars, concVars, rateVars, univVars, detVars, scanVars,
             cfgVars, wrapVars, startVars, limVars, sendVars>>

---------------------------------------------------------------------------
(* Bounds and input domains *)

MaxTime        == 9     \* the clock stops advancing here (SpecAlerts)
MaxTimeDB      == 2     \* same, for SpecDB
MaxRows        == 3     \* SpecDB stops inserting at this many rows
MaxDays        == 1     \* cleanup_old(days) is called with days in 0..MaxDays
MaxTimeConc    == 2     \* same, for SpecConc
MaxCooldown    == 2     \* cooldown_minutes is configured in 0..MaxCooldown
TicksPerDay    == 1
TicksPerMinute == 1

MaxClock       == 120   \* the REST client's clock is not advanced beyond this
MaxCalls       == 4     \* fetch operations per run of SpecRate
MaxRateLimit   == 2     \* rate_limit is configured in 0..MaxRateLimit
MaxLag         == 1     \* seconds between the two time.time() reads of one call
MaxCallsFetch     == 1  \* fetch operations per run of SpecFetch
MaxRateLimitFetch == 1  \* rate_limit is configured in 0..MaxRateLimitFetch (SpecFetch)
MaxFetchesUniverse == 4 \* fetch operations per run of SpecUniverse
MaxFetchesDetector == 2 \* fetch operations per run of SpecDetector
MaxClockFetch     == 1  \* the clock is advanced only before this second (SpecFetch)

RetentionDays  == 7     \* default of cleanup_old_alerts, used by run()

Symbols       == {"BTCUSDT", "ETHUSDT"}
Timeframes    == {"15m", "1h"}
BarCloseTimes == {1234567890, 1234568790}
Signatures    == {"sig1", "sig2"}

\* the key of the table's UNIQUE constraint
Triple(symbol, timeframe, bar_close_time) == <<symbol, timeframe, bar_close_time>>
Triples == Symbols \X Timeframes \X BarCloseTimes
RowTriple(r) == Triple(r.symbol, r.timeframe, r.bar_close_time)

\* the triples the store is called with directly: one triple and its three
\* neighbours that differ in the symbol, in the timeframe, in the bar close time
DBTriples == {<<"BTCUSDT", "15m", 1234567890>>, <<"ETHUSDT", "15m", 1234567890>>,
              <<"BTCUSDT", "1h", 1234567890>>, <<"BTCUSDT", "15m", 1234568790>>}

---------------------------------------------------------------------------
(* AlertDeduplicationDB *)

\* one row of `alerts`; the surrogate id is never read by the program
Row(symbol, timeframe, bar_close_time, signature, t) ==
    [symbol |-> symbol, timeframe |-> timeframe, bar_close_time |-> bar_close_time,
     signature |-> signature, created_at |-> t]

\* variant: the lookup goes by (symbol, bar_close_time) alone, as the index
\* idx_alerts_symbol_time does
alert_exists_no_timeframe(db, symbol, timeframe, bar_close_time) ==
    \E r \in db : /\ r.symbol = symbol
                  /\ r.bar_close_time = bar_close_time

\* SELECT 1 FROM alerts WHERE symbol=? AND timeframe=? AND bar_close_time=?
alert_exists(db, symbol, timeframe, bar_close_time) ==
    \E r \in db : /\ r.symbol = symbol
                  /\ r.timeframe = timeframe
                  /\ r.bar_close_time = bar_close_time

\* UNIQUE(symbol, timeframe, bar_close_time): would the INSERT raise IntegrityError
IntegrityError(db, symbol, timeframe, bar_close_time) ==
    \E r \in db : RowTriple(r) = Triple(symbol, timeframe, bar_close_time)

\* variant: a table without the UNIQUE constraint
store_alert_no_unique(db, symbol, timeframe, bar_close_time, signature, t) ==
    [ok |-> TRUE,
     db |-> db \cup {Row(symbol, timeframe, bar_close_time, signature, t)}]

\* variant: INSERT OR REPLACE ...; True whether or not the key was stored
store_alert_replace(db, symbol, timeframe, bar_close_time, signature, t) ==
    [ok |-> TRUE,
     db |-> {r \in db : RowTriple(r) # Triple(symbol, timeframe, bar_close_time)}
            \cup {Row(symbol, timeframe, bar_close_time, signature, t)}]

\* INSERT ...; True, or False on IntegrityError.  created_at is CURRENT_TIMESTAMP.
store_alert(db, symbol, timeframe, bar_close_time, signature, t) ==
    IF IntegrityError(db, symbol, timeframe, bar_close_time)
    THEN [ok |-> FALSE, db |-> db]
    ELSE [ok |-> TRUE,
          db |-> db \cup {Row(symbol, timeframe, bar_close_time, signature, t)}]

\* variant: DELETE ... WHERE created_at < datetime('now'), whatever days is
cleanup_old_ignores_days(db, days, t) ==
    {r \in db : ~(r.created_at < t)}

\* variant: DELETE ... WHERE created_at <= datetime('now', '-<days> days')
cleanup_old_inclusive(db, days, t) ==
    {r \in db : ~(r.created_at <= t - days * TicksPerDay)}

\* DELETE FROM alerts WHERE created_at < datetime('now', '-<days> days')
cleanup_old(db, days, t) ==
    {r \in db : ~(r.created_at < t - days * TicksPerDay)}

---------------------------------------------------------------------------
(* SpecDB: the store's operations called directly (tests/test_deduplication.py) *)

NoOp == [op |-> "none", triple |-> <<"", "", 0>>, signature |-> "", days |-> 0,
         result |-> FALSE, present |-> FALSE, before |-> 0, after |-> 0,
         kept |-> TRUE, same |-> TRUE, fresh |-> 0, aged |-> 0]

StoreAlertOp(symbol, timeframe, bar_close_time, signature) ==
    LET res == store_alert(alerts, symbol, timeframe, bar_close_time, signature, now)
        tr  == Triple(symbol, timeframe, bar_close_time)
    IN  /\ Cardinality(alerts) < MaxRows \/ ~res.ok
        /\ alerts' = res.db
        /\ db_op' = [NoOp EXCEPT !.op = "store_alert", !.triple = tr,
                        !.signature = signature, !.result = res.ok,
                        !.present = (\E r \in alerts : RowTriple(r) = tr),
                        !.before = Cardinality(alerts),
                        !.after = Cardinality(alerts'),
                        !.kept = (alerts \subseteq alerts'),
                        !.same = (alerts' = alerts)]
        /\ UNCHANGED now

AlertExistsOp(symbol, timeframe, bar_close_time) ==
    LET tr == Triple(symbol, timeframe, bar_close_time)
    IN  /\ UNCHANGED <<now, alerts>>
        /\ db_op' = [NoOp EXCEPT !.op = "alert_exists", !.triple = tr,
                        !.result = alert_exists(alerts, symbol, timeframe, bar_close_time),
                        !.present = (\E r \in alerts : RowTriple(r) = tr),
                        !.before = Cardinality(alerts),
                        !.after = Cardinality(alerts'),
                        !.kept = (alerts \subseteq alerts'),
                        !.same = (alerts' = alerts)]

CleanupOldOp(days) ==
    LET db == cleanup_old(alerts, days, now)
    IN  /\ alerts' = db
        /\ db_op' = [NoOp EXCEPT !.op = "cleanup_old", !.days = days,
                        !.before = Cardinality(alerts),
                        !.after = Cardinality(alerts'),
                        !.kept = (alerts \subseteq alerts'),
                        !.same = (alerts' = alerts),
                        \* rows no older than the retention period that are gone
                        !.fresh = Cardinality({r \in alerts \ db :
                                        now - r.created_at <= days * TicksPerDay}),
                        \* rows older than the retention period that are still there
                        !.aged = Cardinality({r \in db :
                                        now - r.created_at > days * TicksPerDay})]
        /\ UNCHANGED now

TickDB ==
    /\ now < MaxTimeDB
    /\ now' = now + 1
    /\ UNCHANGED <<alerts, db_op>>

InitDBVars ==
    /\ now = 0
    /\ alerts = {}
    /\ db_op = NoOp

---------------------------------------------------------------------------
(* AlertManager *)

Signal(symbol, timeframe, candle_timestamp) ==
    [symbol |-> symbol, timeframe |-> timeframe, candle_timestamp |-> candle_timestamp]
NoSignal == Signal("", "", 0)

\* the signals handed to send_alert
Signals == {Signal("BTCUSDT", "15m", 1234567890),
            Signal("BTCUSDT", "15m", 1234568790),
            Signal("ETHUSDT", "15m", 1234567890)}

SignalTriple(g) == Triple(g.symbol, g.timeframe, g.candle_timestamp)

\* key = f"{symbol}:{timeframe}"
CooldownKey(symbol, timeframe) == symbol \o ":" \o timeframe

\* signature = f"{symbol}:{timeframe}:{candle_timestamp}"
SignatureOf(g) ==
    g.symbol \o ":" \o g.timeframe \o ":" \o ToString(g.candle_timestamp)

\* timedelta(minutes=cooldown_minutes), in ticks
CooldownTicks(minutes) == minutes * TicksPerMinute

\* variant: time_since_last <= timedelta(...)
can_alert_inclusive(db, times, minutes, t, symbol, timeframe, bar_close_time) ==
    IF alert_exists(db, symbol, timeframe, bar_close_time)
    THEN FALSE
    ELSE LET key == CooldownKey(symbol, timeframe)
         IN  IF key \in DOMAIN times /\ t - times[key] <= CooldownTicks(minutes)
             THEN FALSE
             ELSE TRUE

\* variant: the cooldown tier alone, without the exact-bar lookup
can_alert_cooldown_only(db, times, minutes, t, symbol, timeframe, bar_close_time) ==
    LET key == CooldownKey(symbol, timeframe)
    IN  IF key \in DOMAIN times /\ t - times[key] < CooldownTicks(minutes)
        THEN FALSE
        ELSE TRUE

\* lines 42-77: exact-bar lookup first, then the cooldown of the key
can_alert(db, times, minutes, t, symbol, timeframe, bar_close_time) ==
    IF alert_exists(db, symbol, timeframe, bar_close_time)
    THEN FALSE
    ELSE LET key == CooldownKey(symbol, timeframe)
         IN  IF key \in DOMAIN times /\ t - times[key] < CooldownTicks(minutes)
             THEN FALSE
             ELSE TRUE

\* variant: _record_alert stamps the cooldown clock and forgets the row
record_alert_no_store(db, times, g, t) ==
    LET key == CooldownKey(g.symbol, g.timeframe)
    IN  [stored |-> FALSE,
         db     |-> db,
         times  |-> [k \in DOMAIN times \cup {key} |->
                        IF k = key THEN t ELSE times[k]]]

\* _record_alert: store the row, then stamp the cooldown clock
record_alert(db, times, g, t) ==
    LET res == store_alert(db, g.symbol, g.timeframe, g.candle_timestamp,
                           SignatureOf(g), t)
        key == CooldownKey(g.symbol, g.timeframe)
    IN  [stored |-> res.ok,
         db     |-> res.db,
         times  |-> [k \in DOMAIN times \cup {key} |->
                        IF k = key THEN t ELSE times[k]]]

---------------------------------------------------------------------------
(* SpecAlerts: send_alert step by step.  The caller is at "idle" between   *)
(* calls, at "notify" once can_alert has passed and the notifier is about  *)
(* to be called, and at "record" once the notifier has returned True.      *)

EmptyMap == [k \in {} |-> 0]

NoCall == [signal |-> NoSignal, existed |-> FALSE, prior |-> FALSE, cooling |-> FALSE,
           passed |-> FALSE, invoked |-> FALSE, outcome |-> "none",
           stored |-> FALSE, cooled |-> FALSE, frame |-> FALSE, ret |-> "none"]
NoEntry == [alerts |-> {}, times |-> EmptyMap]

\* what the notifier does with one call: True, False (RequestException caught
\* inside it), or an exception that leaves it
NotifierOutcomes == {"ok", "fail", "raise"}

\* send_alert, lines 90-92: the can_alert gate
SendAlertCall(g) ==
    LET passed == can_alert(alerts, last_alert_times, cooldown_minutes, now,
                            g.symbol, g.timeframe, g.candle_timestamp)
        pair   == <<g.symbol, g.timeframe>>
        prior  == pair \in DOMAIN last_delivery
    IN  /\ pc = "idle"
        /\ call' = [NoCall EXCEPT
                        !.signal  = g,
                        !.existed = (\E r \in alerts : RowTriple(r) = SignalTriple(g)),
                        !.prior   = prior,
                        !.cooling = (/\ prior
                                     /\ now - last_delivery[pair]
                                            < CooldownTicks(cooldown_minutes)),
                        !.passed  = passed,
                        !.frame   = ~passed,
                        !.ret     = IF passed THEN "none" ELSE "false"]
        /\ pc' = IF passed THEN "notify" ELSE "idle"
        /\ entry' = IF passed THEN [alerts |-> alerts, times |-> last_alert_times]
                               ELSE NoEntry
        /\ UNCHANGED <<now, alerts, db_op, cooldown_minutes, last_alert_times,
                       delivered, purged, last_delivery>>

\* variant: _record_alert is reached whatever the notifier returned
NotifierSend_record_always(outcome) ==
    /\ pc = "notify"
    /\ call' = [call EXCEPT
                    !.invoked = TRUE,
                    !.outcome = outcome,
                    !.ret     = IF outcome = "raise" THEN "raised" ELSE "none"]
    /\ delivered' = IF outcome = "ok"
                     THEN [delivered EXCEPT ![SignalTriple(call.signal)] = @ + 1]
                     ELSE delivered
    /\ pc' = IF outcome = "raise" THEN "idle" ELSE "record"
    /\ entry' = IF outcome = "raise" THEN NoEntry ELSE entry
    /\ UNCHANGED <<now, alerts, db_op, cooldown_minutes, last_alert_times,
                   purged, last_delivery>>

\* variant: the cooldown clock is stamped when the notifier is called, not when
\* it has succeeded
NotifierSend_stamp_first(outcome) ==
    /\ pc = "notify"
    /\ last_alert_times' =
            record_alert(alerts, last_alert_times, call.signal, now).times
    /\ call' = [call EXCEPT
                    !.invoked = TRUE,
                    !.outcome = outcome,
                    !.frame   = IF outcome = "ok" THEN FALSE
                                ELSE /\ alerts = entry.alerts
                                     /\ last_alert_times' = entry.times,
                    !.ret     = CASE outcome = "ok"    -> "none"
                                  [] outcome = "fail"  -> "false"
                                  [] outcome = "raise" -> "raised"]
    /\ delivered' = IF outcome = "ok"
                     THEN [delivered EXCEPT ![SignalTriple(call.signal)] = @ + 1]
                     ELSE delivered
    /\ pc' = IF outcome = "ok" THEN "record" ELSE "idle"
    /\ entry' = IF outcome = "ok" THEN entry ELSE NoEntry
    /\ UNCHANGED <<now, alerts, db_op, cooldown_minutes, purged, last_delivery>>

\* send_alert, lines 94-100 and 112: the notifier call and, unless it returned
\* True, the return
NotifierSend(outcome) ==
    /\ pc = "notify"
    /\ call' = [call EXCEPT
                    !.invoked = TRUE,
                    !.outcome = outcome,
                    !.frame   = IF outcome = "ok" THEN FALSE
                                ELSE /\ alerts = entry.alerts
                                     /\ last_alert_times = entry.times,
                    !.ret     = CASE outcome = "ok"    -> "none"
                                  [] outcome = "fail"  -> "false"
                                  [] outcome = "raise" -> "raised"]
    /\ delivered' = IF outcome = "ok"
                     THEN [delivered EXCEPT ![SignalTriple(call.signal)] = @ + 1]
                     ELSE delivered
    /\ pc' = IF outcome = "ok" THEN "record" ELSE "idle"
    /\ entry' = IF outcome = "ok" THEN entry ELSE NoEntry
    /\ UNCHANGED <<now, alerts, db_op, cooldown_minutes, last_alert_times,
                   purged, last_delivery>>

\* send_alert, lines 100-112 after a True from the notifier: _record_alert, return
RecordAlert ==
    LET g   == call.signal
        rec == record_alert(alerts, last_alert_times, g, now)
        key == CooldownKey(g.symbol, g.timeframe)
        pair == <<g.symbol, g.timeframe>>
    IN  /\ pc = "record"
        /\ alerts' = rec.db
        /\ last_alert_times' = rec.times
        /\ call' = [call EXCEPT
                        !.stored = rec.stored /\ rec.db # alerts,
                        !.cooled = (key \in DOMAIN rec.times /\ rec.times[key] = now),
                        !.frame  = (rec.db = entry.alerts /\ rec.times = entry.times),
                        !.ret    = "true"]
        /\ last_delivery' = [p \in DOMAIN last_delivery \cup {pair} |->
                                IF p = pair THEN now ELSE last_delivery[p]]
        /\ pc' = "idle"
        /\ entry' = NoEntry
        /\ UNCHANGED <<now, db_op, cooldown_minutes, delivered, purged>>

\* A graceful stop followed by a new process: __init__ builds a manager with an
\* empty cooldown map over the same alerts.db, and run() calls
\* cleanup_old_alerts() with its default before the first cycle.
Restart ==
    LET db == cleanup_old(alerts, RetentionDays, now)
    IN  /\ pc = "idle"
        /\ alerts' = db
        /\ purged' = [tr \in Triples |->
                        IF \E r \in alerts \ db : RowTriple(r) = tr
                        THEN purged[tr] + 1 ELSE purged[tr]]
        /\ last_alert_times' = EmptyMap
        /\ last_delivery' = EmptyMap
        /\ call' = NoCall
        /\ entry' = NoEntry
        /\ UNCHANGED <<now, db_op, cooldown_minutes, pc, delivered>>

Tick ==
    /\ now < MaxTime
    /\ now' = now + 1
    /\ UNCHANGED <<alerts, db_op, mgrVars>>

InitMgrVars ==
    /\ cooldown_minutes \in 0..MaxCooldown
    /\ last_alert_times = EmptyMap
    /\ pc = "idle"
    /\ call = NoCall
    /\ entry = NoEntry
    /\ delivered = [tr \in Triples |-> 0]
    /\ purged = [tr \in Triples |-> 0]
    /\ last_delivery = EmptyMap

---------------------------------------------------------------------------
(* SpecConc: two threads, each running one operation of the same             *)
(* AlertDeduplicationDB.  Every operation is                                 *)
(*     with self.lock, sqlite3.connect(self.db_path) as conn: <statement>    *)
(* so a thread takes the lock, runs its statement (committed when the        *)
(* connection's context ends), and gives the lock back.  The clock may       *)
(* advance between any two steps.                                            *)

Threads == {1, 2}

StoreOp(tr, signature) == [op |-> "store_alert", triple |-> tr,
                           signature |-> signature, days |-> 0]
CleanupOp(days)        == [op |-> "cleanup_old", triple |-> <<"", "", 0>>,
                           signature |-> "", days |-> days]

ConcTriples == {<<"BTCUSDT", "15m", 1234567890>>, <<"ETHUSDT", "15m", 1234567890>>}

ConcOps == {StoreOp(tr, signature) : tr \in ConcTriples, signature \in Signatures}
           \cup {CleanupOp(days) : days \in 0..MaxDays}

NoRes == [ran |-> FALSE, ok |-> FALSE, at |-> 0, existed |-> FALSE]

\* with self.lock: blocks until the lock is free
Acquire(th) ==
    /\ tpc[th] = "start"
    /\ lock = 0
    /\ lock' = th
    /\ tpc' = [tpc EXCEPT ![th] = "locked"]
    /\ UNCHANGED <<dbVars, mgrVars, top, tres, order>>

\* the statement of store_alert or of cleanup_old, and its commit
Execute(th) ==
    LET o   == top[th]
        ins == store_alert(alerts, o.triple[1], o.triple[2], o.triple[3],
                           o.signature, now)
    IN  /\ tpc[th] = "locked"
        /\ lock = th
        /\ alerts' = IF o.op = "store_alert" THEN ins.db
                      ELSE cleanup_old(alerts, o.days, now)
        /\ tres' = [tres EXCEPT ![th] =
                        [ran |-> TRUE,
                         ok  |-> IF o.op = "store_alert" THEN ins.ok ELSE TRUE,
                         at  |-> now,
                         existed |-> o.op = "store_alert"
                                     /\ \E r \in alerts : RowTriple(r) = o.triple]]
        /\ order' = Append(order, th)
        /\ tpc' = [tpc EXCEPT ![th] = "ran"]
        /\ UNCHANGED <<now, db_op, mgrVars, lock, top>>

\* leaving the with block
Release(th) ==
    /\ tpc[th] = "ran"
    /\ lock = th
    /\ lock' = 0
    /\ tpc' = [tpc EXCEPT ![th] = "done"]
    /\ UNCHANGED <<dbVars, mgrVars, top, tres, order>>

TickConc ==
    /\ now < MaxTimeConc
    /\ now' = now + 1
    /\ UNCHANGED <<alerts, db_op, mgrVars, concVars>>

InitConcVars ==
    /\ lock = 0
    /\ tpc = [th \in Threads |-> "start"]
    /\ top \in [Threads -> ConcOps]
    /\ tres = [th \in Threads |-> NoRes]
    /\ order = <<>>

\* the threads are not running in SpecDB and SpecAlerts
IdleConcVars ==
    /\ lock = 0
    /\ tpc = [th \in Threads |-> "done"]
    /\ top = [th \in Threads |-> CleanupOp(0)]
    /\ tres = [th \in Threads |-> NoRes]
    /\ order = <<>>

---------------------------------------------------------------------------
(* BinanceRestClient: the rate limiter in front of every fetch operation *)

Window == 60    \* the limiter's window, in seconds

Endpoints == {"24hr_tickers", "exchange_info", "klines", "volume_period"}

\* seconds the clock is advanced by between two fetch operations
ClockSteps == {30, 60}

\* [t for t in request_times if now - t < 60]
Prune(times, t) == SelectSeq(times, LAMBDA x : t - x < Window)

\* variant: the limiter waits only when the window holds more than the budget
check_rate_limit_off_by_one(times, limit, t, lag) ==
    LET pruned == Prune(times, t)
    IN  IF Len(pruned) > limit
        THEN IF pruned = <<>>
             THEN [raised |-> TRUE, slept |-> 0, at |-> t, times |-> pruned]
             ELSE LET sleep_time == Window - (t - pruned[1])
                      slept == IF sleep_time > 0 THEN sleep_time ELSE 0
                  IN  [raised |-> FALSE, slept |-> slept, at |-> t + slept + lag,
                       times |-> Append(pruned, t + slept + lag)]
        ELSE [raised |-> FALSE, slept |-> 0, at |-> t + lag,
              times |-> Append(pruned, t + lag)]

\* variant: the limiter waits a full window whenever the budget is used up
check_rate_limit_full_window(times, limit, t, lag) ==
    LET pruned == Prune(times, t)
    IN  IF Len(pruned) >= limit
        THEN IF pruned = <<>>
             THEN [raised |-> TRUE, slept |-> 0, at |-> t, times |-> pruned]
             ELSE [raised |-> FALSE, slept |-> Window, at |-> t + Window + lag,
                   times |-> Append(pruned, t + Window + lag)]
        ELSE [raised |-> FALSE, slept |-> 0, at |-> t + lag,
              times |-> Append(pruned, t + lag)]

\* _check_rate_limit, entered at time t; lag is the time that passes between
\* its first time.time() and the one whose value it appends, beyond the sleep.
\* request_times[0] of an empty list raises IndexError.
check_rate_limit(times, limit, t, lag) ==
    LET pruned == Prune(times, t)
    IN  IF Len(pruned) >= limit
        THEN IF pruned = <<>>
             THEN [raised |-> TRUE, slept |-> 0, at |-> t, times |-> pruned]
             ELSE LET sleep_time == Window - (t - pruned[1])
                      slept == IF sleep_time > 0 THEN sleep_time ELSE 0
                  IN  [raised |-> FALSE, slept |-> slept, at |-> t + slept + lag,
                       times |-> Append(pruned, t + slept + lag)]
        ELSE [raised |-> FALSE, slept |-> 0, at |-> t + lag,
              times |-> Append(pruned, t + lag)]

---------------------------------------------------------------------------
(* BinanceRestClient: the four fetch operations behind api_call *)

MaxCandles == 1500   \* limit = min(limit, 1500)

\* the intervals get_volume_for_period computes a candle count for
Intervals == {"1h", "15m", "5m", "1m"}

\* intervals and hours the operation is called with
IntervalInputs == Intervals \cup {"2h"}
Hours == {8, 25, 26, 126, 376, 1501}

\* what the exchange does with a request that was sent:
\*   ok             200 and the documented body
\*   network_error  requests.ConnectionError
\*   timeout        requests.Timeout
\*   http_error     a non-2xx status, raised by raise_for_status() as HTTPError
\*   api_error      200 and a body {"code": ..., "msg": ...}
\*   malformed      200 and the JSON body null
Upstream == {"ok", "network_error", "timeout", "http_error", "api_error", "malformed"}

\* the exceptions that are subclasses of requests.exceptions.RequestException
RequestException(upstream) == upstream \in {"network_error", "timeout", "http_error"}

\* what a function body hands to its caller: a returned value or an exception
\*   data        the parsed body (or the volume summed from it)
\*   empty       [] for the tickers, {} for the exchange info, None otherwise
\*   error_body  the parsed body {"code": ..., "msg": ...}
Return(value) == [value |-> value, exc |-> "none"]
Raise(exc)    == [value |-> "none", exc |-> exc]

\* get_24hr_tickers after the limiter; len(None) raises TypeError
get_24hr_tickers(upstream) ==
    IF RequestException(upstream) THEN Return("empty")
    ELSE IF upstream = "malformed" THEN Raise("TypeError")
    ELSE IF upstream = "api_error" THEN Return("error_body")
    ELSE Return("data")

\* get_exchange_info after the limiter; None.get raises AttributeError
get_exchange_info(upstream) ==
    IF RequestException(upstream) THEN Return("empty")
    ELSE IF upstream = "malformed" THEN Raise("AttributeError")
    ELSE IF upstream = "api_error" THEN Return("error_body")
    ELSE Return("data")

\* get_klines after the limiter; len(None) raises TypeError
get_klines(upstream) ==
    IF RequestException(upstream) THEN Return("empty")
    ELSE IF upstream = "api_error" THEN Return("empty")
    ELSE IF upstream = "malformed" THEN Raise("TypeError")
    ELSE Return("data")

\* variant: the candle count is not capped
candle_count_uncapped(hours, interval) ==
    IF interval = "1h" THEN hours
    ELSE IF interval = "15m" THEN hours * 4
    ELSE IF interval = "5m" THEN hours * 12
    ELSE hours * 60

\* the `limit` parameter get_volume_for_period sends, for an interval of Intervals
candle_count(hours, interval) ==
    LET limit == IF interval = "1h" THEN hours
                 ELSE IF interval = "15m" THEN hours * 4
                 ELSE IF interval = "5m" THEN hours * 12
                 ELSE hours * 60
    IN  IF limit < MaxCandles THEN limit ELSE MaxCandles

\* get_volume_for_period after the limiter: the interval is looked up before
\* anything is sent; iterating over None raises TypeError
get_volume_for_period(hours, interval, upstream) ==
    IF interval \notin Intervals THEN Return("empty")
    ELSE IF RequestException(upstream) THEN Return("empty")
    ELSE IF upstream = "api_error" THEN Return("empty")
    ELSE IF upstream = "malformed" THEN Raise("TypeError")
    ELSE Return("data")

\* api_call.wrapper: hands the function's result on, re-raises its exception
api_call(res) ==
    IF res.exc = "none" THEN Return(res.value) ELSE Raise(res.exc)

NoFetch == [endpoint |-> "none", previous |-> "none", raised |-> FALSE,
            slept |-> 0, entered |-> 0, held |-> 0, oldest |-> 0, left |-> 0,
            hours |-> 0, interval |-> "none", limit |-> 0,
            requested |-> FALSE, upstream |-> "none",
            value |-> "none", exc |-> "none"]

\* get_24hr_tickers, get_exchange_info, get_klines, get_volume_for_period as
\* their callers see them: self._check_rate_limit() first and outside the try
\* block, then the body, all inside api_call.wrapper; lag is the time the
\* limiter takes beyond its sleep
Fetch(endpoint, hours, interval, upstream, lag) ==
    LET res == check_rate_limit(request_times, rate_limit, clock, lag)
        pruned == Prune(request_times, clock)
        volume == endpoint = "volume_period"
        requested == ~res.raised /\ (volume => interval \in Intervals)
        body == IF res.raised THEN Raise("IndexError")
                ELSE IF endpoint = "24hr_tickers" THEN get_24hr_tickers(upstream)
                ELSE IF endpoint = "exchange_info" THEN get_exchange_info(upstream)
                ELSE IF endpoint = "klines" THEN get_klines(upstream)
                ELSE get_volume_for_period(hours, interval, upstream)
        out == api_call(body)
    IN  /\ request_times' = res.times
        /\ clock' = res.at
        /\ issued' = IF res.raised THEN issued ELSE Append(issued, res.at)
        /\ fetch' = [endpoint |-> endpoint, previous |-> fetch.endpoint,
                      raised |-> res.raised, slept |-> res.slept,
                      entered |-> clock,
                      held |-> Len(pruned),
                      oldest |-> IF pruned = <<>> THEN 0 ELSE pruned[1],
                      left |-> res.at,
                      hours |-> IF volume THEN hours ELSE 0,
                      interval |-> IF volume THEN interval ELSE "none",
                      limit |-> IF volume /\ requested
                                THEN candle_count(hours, interval) ELSE 0,
                      requested |-> requested,
                      upstream |-> IF requested THEN upstream ELSE "none",
                      value |-> out.value, exc |-> out.exc]
        /\ UNCHANGED rate_limit

ClockAdvance ==
    \E d \in ClockSteps :
        /\ clock + d <= MaxClock
        /\ clock' = clock + d
        /\ UNCHANGED <<rate_limit, request_times, issued, fetch>>

InitRateVars ==
    /\ clock = 0
    /\ rate_limit \in 0..MaxRateLimit
    /\ request_times = <<>>
    /\ issued = <<>>
    /\ fetch = NoFetch

\* the client is not used in the other specifications
IdleRateVars ==
    /\ clock = 0
    /\ rate_limit = 0
    /\ request_times = <<>>
    /\ issued = <<>>
    /\ fetch = NoFetch

---------------------------------------------------------------------------
(* SymbolUniverse: the cached set of liquid perpetual symbols *)
(*                                                                         *)
(* get_liquid_perpetuals is followed through its two fetch operations and  *)
(* the three assignments that publish a refresh (universe.py:117-119); the *)
(* class takes no lock, so get_symbol_info and is_liquid, which read the   *)
(* fields, can run at any of these positions.  The tickers of one response carry distinct symbols,   *)
(* as the exchange sends them, and numeric quoteVolume fields.             *)

HoursPerDay == 24   \* avg_hourly_volume = quote_volume / 24

CacheTTLs == {60}

\* seconds a fetch of the universe takes beyond the limiter's sleep
UniverseLags == {0}

\* answers of the exchange to the fetches of the universe
UniverseUpstream == {"ok", "timeout", "api_error", "malformed"}

MinHourlyVolume == 1000   \* the default of universe.min_hourly_volume

\* quoteVolume fields: just below and exactly at 24 * min_hourly_volume
QuoteVolumes == {HoursPerDay * MinHourlyVolume - 1, HoursPerDay * MinHourlyVolume}

\* bodies of /ticker/24hr: symbol -> quoteVolume, the empty list included
TickerResponses ==
    UNION {[S -> QuoteVolumes] : S \in SUBSET Symbols}

ContractInfo(contractType, status) == [contractType |-> contractType, status |-> status]

\* the `symbols` of /exchangeInfo: BTCUSDT is a trading perpetual, ETHUSDT is
\* one too, or is not trading, or is not a perpetual, or is not listed
ExchangeInfoResponses ==
    {[s \in {"BTCUSDT"} |-> ContractInfo("PERPETUAL", "TRADING")]} \cup
    {[s \in Symbols |-> IF s = "BTCUSDT" THEN ContractInfo("PERPETUAL", "TRADING") ELSE c] :
        c \in {ContractInfo("PERPETUAL", "TRADING"), ContractInfo("PERPETUAL", "SETTLING"),
               ContractInfo("CURRENT_QUARTER", "TRADING")}}

\* an exact quotient; Python divides floats
Ratio(num, den) == [num |-> num, den |-> den]

\* ratio >= n, for a positive denominator
RatioAtLeast(ratio, n) == ratio.num >= n * ratio.den

\* variant: a symbol exactly at the minimum is not liquid
SymbolInfo_strict(symbol, quote_volume, minimum) ==
    LET avg_hourly_volume == Ratio(quote_volume, HoursPerDay)
    IN  [symbol |-> symbol, avg_hourly_volume |-> avg_hourly_volume,
         is_liquid |-> avg_hourly_volume.num > minimum * avg_hourly_volume.den]

\* the SymbolInfo built for one ticker
SymbolInfo(symbol, quote_volume, minimum) ==
    LET avg_hourly_volume == Ratio(quote_volume, HoursPerDay)
    IN  [symbol |-> symbol, avg_hourly_volume |-> avg_hourly_volume,
         is_liquid |-> RatioAtLeast(avg_hourly_volume, minimum)]

\* symbols whose contractType is PERPETUAL and whose status is TRADING
perpetual_symbols(exchange_info) ==
    {s \in DOMAIN exchange_info :
        /\ exchange_info[s].contractType = "PERPETUAL"
        /\ exchange_info[s].status = "TRADING"}

\* the loop over the tickers: one SymbolInfo per ticker of a perpetual symbol
new_symbols(tickers, exchange_info, minimum) ==
    [s \in DOMAIN tickers \cap perpetual_symbols(exchange_info) |->
        SymbolInfo(s, tickers[s], minimum)]

\* variant: every perpetual symbol counts as liquid
new_liquid_symbols_all(infos) == DOMAIN infos

\* the symbols of the map that are liquid
new_liquid_symbols(infos) == {s \in DOMAIN infos : infos[s].is_liquid}

\* variant: the cache is never used
cache_hit_never(force_refresh, liquid, last, ttl, t) == FALSE

\* the condition under which the cached set is returned
cache_hit(force_refresh, liquid, last, ttl, t) ==
    /\ ~force_refresh
    /\ liquid # {}
    /\ (t - last) < ttl

\* variant: an empty result of either fetch is not looked at
keep_cache_never(res) == FALSE

\* `if not tickers` / `if not exchange_info`, on what the fetch returned
keep_cache(res) == res = "empty"

Cache == [symbols |-> symbols, liquid_symbols |-> liquid_symbols,
          last_update |-> last_update]

NoUCall == [force |-> FALSE, now |-> 0, issued |-> 0,
            entry |-> [symbols |-> EmptyMap, liquid_symbols |-> {}, last_update |-> 0],
            fetches |-> 0,
            tickers_res |-> "none", tickers |-> EmptyMap,
            info_res |-> "none", exchange_info |-> EmptyMap,
            new_symbols |-> EmptyMap, new_liquid_symbols |-> {},
            outcome |-> "none", returned |-> {}]

\* get_liquid_perpetuals up to the cache test
GetLiquidPerpetuals(force_refresh) ==
    /\ upc = "idle"
    /\ LET begun == [NoUCall EXCEPT !.force = force_refresh, !.now = clock,
                                    !.issued = Len(issued), !.entry = Cache]
       IN  IF cache_hit(force_refresh, liquid_symbols, last_update, cache_ttl, clock)
           THEN /\ ucall' = [begun EXCEPT !.outcome = "hit", !.returned = liquid_symbols]
                /\ upc' = "idle"
           ELSE /\ ucall' = [begun EXCEPT !.outcome = "pending"]
                /\ upc' = "tickers"
    /\ UNCHANGED <<symbols, liquid_symbols, last_update, cache_ttl, min_hourly_volume>>
    /\ UNCHANGED rateVars

\* tickers = self.rest_client.get_24hr_tickers() and the test that follows it;
\* an exception of the fetch operation leaves get_liquid_perpetuals as well
FetchTickers(upstream, body) ==
    /\ upc = "tickers"
    /\ \E lag \in UniverseLags : Fetch("24hr_tickers", 0, "none", upstream, lag)
    /\ LET res == IF fetch'.value = "data" /\ body = EmptyMap THEN "empty"
                  ELSE fetch'.value
           fetched == [ucall EXCEPT !.fetches = @ + 1, !.tickers_res = res]
       IN  IF fetch'.exc # "none"
           THEN /\ ucall' = [fetched EXCEPT !.outcome = "raised"]
                /\ upc' = "idle"
           ELSE IF keep_cache(res)
           THEN /\ ucall' = [fetched EXCEPT !.outcome = "kept",
                                            !.returned = liquid_symbols]
                /\ upc' = "idle"
           ELSE /\ ucall' = [fetched EXCEPT !.tickers = IF res = "data" THEN body
                                                        ELSE EmptyMap]
                /\ upc' = "exchange_info"
    /\ UNCHANGED <<symbols, liquid_symbols, last_update, cache_ttl, min_hourly_volume>>

\* exchange_info = self.rest_client.get_exchange_info(), the test that follows
\* it and the loop that builds new_symbols and new_liquid_symbols.  A ticker
\* body {"code": ..., "msg": ...} makes the loop call .get on a str, which
\* raises AttributeError; an exchange info of that shape has no symbols.
FetchExchangeInfo(upstream, body) ==
    /\ upc = "exchange_info"
    /\ \E lag \in UniverseLags : Fetch("exchange_info", 0, "none", upstream, lag)
    /\ LET res == fetch'.value
           fetched == [ucall EXCEPT !.fetches = @ + 1, !.info_res = res]
           info == IF res = "data" THEN body ELSE EmptyMap
           built == new_symbols(ucall.tickers, info, min_hourly_volume)
       IN  IF fetch'.exc # "none"
           THEN /\ ucall' = [fetched EXCEPT !.outcome = "raised"]
                /\ upc' = "idle"
           ELSE IF keep_cache(res)
           THEN /\ ucall' = [fetched EXCEPT !.outcome = "kept",
                                            !.returned = liquid_symbols]
                /\ upc' = "idle"
           ELSE IF ucall.tickers_res = "error_body"
           THEN /\ ucall' = [fetched EXCEPT !.exchange_info = info,
                                            !.outcome = "raised"]
                /\ upc' = "idle"
           ELSE /\ ucall' = [fetched EXCEPT !.exchange_info = info,
                                            !.new_symbols = built,
                                            !.new_liquid_symbols = new_liquid_symbols(built)]
                /\ upc' = "assign_symbols"
    /\ UNCHANGED <<symbols, liquid_symbols, last_update, cache_ttl, min_hourly_volume>>

\* self.symbols = new_symbols
AssignSymbols ==
    /\ upc = "assign_symbols"
    /\ symbols' = ucall.new_symbols
    /\ upc' = "assign_liquid"
    /\ UNCHANGED <<liquid_symbols, last_update, cache_ttl, min_hourly_volume, ucall>>
    /\ UNCHANGED rateVars

\* self.liquid_symbols = new_liquid_symbols
AssignLiquidSymbols ==
    /\ upc = "assign_liquid"
    /\ liquid_symbols' = ucall.new_liquid_symbols
    /\ upc' = "assign_time"
    /\ UNCHANGED <<symbols, last_update, cache_ttl, min_hourly_volume, ucall>>
    /\ UNCHANGED rateVars

\* self.last_update = now; return list(self.liquid_symbols)
AssignLastUpdate ==
    /\ upc = "assign_time"
    /\ last_update' = ucall.now
    /\ ucall' = [ucall EXCEPT !.outcome = "refreshed", !.returned = liquid_symbols]
    /\ upc' = "idle"
    /\ UNCHANGED <<symbols, liquid_symbols, cache_ttl, min_hourly_volume>>
    /\ UNCHANGED rateVars

\* get_symbol_info(symbol): self.symbols.get(symbol), None when absent
get_symbol_info(symbol) ==
    IF symbol \in DOMAIN symbols THEN {symbols[symbol]} ELSE {}

\* is_liquid(symbol): symbol in self.liquid_symbols
is_liquid(symbol) == symbol \in liquid_symbols

\* time passes between two calls of the universe
ClockAdvanceUniverse ==
    /\ upc = "idle"
    /\ ClockAdvance
    /\ UNCHANGED univVars

InitUnivVars ==
    /\ symbols = EmptyMap
    /\ liquid_symbols = {}
    /\ last_update = 0
    /\ cache_ttl \in CacheTTLs
    /\ min_hourly_volume = MinHourlyVolume
    /\ upc = "idle"
    /\ ucall = NoUCall

\* the universe is not used in the other specifications
IdleUnivVars ==
    /\ symbols = EmptyMap
    /\ liquid_symbols = {}
    /\ last_update = 0
    /\ cache_ttl = 0
    /\ min_hourly_volume = 0
    /\ upc = "idle"
    /\ ucall = NoUCall

---------------------------------------------------------------------------
(* MomentumDetector.analyze_symbol *)
(*                                                                         *)
(* Volumes and prices are whole numbers and the percentages are kept as    *)
(* exact quotients; Python computes them in floating point.                *)

HighLiquidityCut  == 1250   \* is_high_liquidity = avg_hourly_volume > 1250
FallbackThreshold == 250    \* the volume threshold of a low-liquidity symbol
LongWindow        == 33     \* if len(df) >= 33

DetectorTimeframe == "15m"

\* configurations of the detector
VolumeWindows    == {8}
VolumeThresholds == {150}
PriceThresholds  == {5}

\* results of get_volume_for_period: an hourly average at the cut and above it
PeriodVolumes ==
    UNION {{HighLiquidityCut * h, HighLiquidityCut * h + 1} : h \in VolumeWindows}

\* one kline: open time (index 0), prices, volume, close time (index 6)
Candle(open_time, volume, open, close) ==
    [timestamp |-> open_time, open |-> open, close |-> close, volume |-> volume,
     close_time |-> open_time + 9]

\* n klines that end with the same bar: the last one, the 8 before it with one
\* volume, the older ones with another
KlineWindow(n, old, base, current, open, close) ==
    [i \in 1..n |-> IF i = n THEN Candle(10 * (40 + i - n), current, open, close)
                    ELSE IF i >= n - 8 THEN Candle(10 * (40 + i - n), base, 100, 100)
                    ELSE Candle(10 * (40 + i - n), old, 100, 100)]

\* bodies of /klines the detector is given: fewer candles than asked for and
\* all of them; a baseline of 0 and of 100; a last candle whose spike over a
\* baseline of 100 is 149, 150, 249, 250 and 900 percent; a price change of
\* 4, 5 and 6 percent and an open price of 0
KlineCounts    == {1, 8, 9, 33}
OldVolumes     == {0, 100, 400}
BaseVolumes    == {0, 100}
CurrentVolumes == {249, 250, 349, 350, 1000}
LastPrices     == {<<100, 104>>, <<100, 105>>, <<100, 106>>, <<0, 105>>}
KlineResponses ==
    {<<>>} \cup
    {KlineWindow(n, old, base, current, price[1], price[2]) :
        n \in KlineCounts, old \in OldVolumes, base \in BaseVolumes,
        current \in CurrentVolumes, price \in LastPrices}

MomentumSignal(symbol, volume_spike_pct, price_change_pct, candle_timestamp, timeframe) ==
    [symbol |-> symbol, volume_spike_pct |-> volume_spike_pct,
     price_change_pct |-> price_change_pct, candle_timestamp |-> candle_timestamp,
     timeframe |-> timeframe]

NoMomentumSignal == MomentumSignal("", Ratio(0, 1), Ratio(0, 1), 0, "")

\* what analyze_symbol hands to its caller
Detected(signal) == [kind |-> "signal", exc |-> "none", signal |-> signal]
NoDetection      == [kind |-> "none", exc |-> "none", signal |-> NoMomentumSignal]
DetectorRaised(exc) == [kind |-> "raised", exc |-> exc, signal |-> NoMomentumSignal]
Pending          == [kind |-> "pending", exc |-> "none", signal |-> NoMomentumSignal]

RECURSIVE SumVolume(_, _, _)
\* the sum of klines[lo..hi].volume
SumVolume(klines, lo, hi) ==
    IF lo > hi THEN 0 ELSE klines[lo].volume + SumVolume(klines, lo + 1, hi)

\* (hours * 60) // 15
klines_needed(hours) == (hours * 60) \div 15

\* variant: an hourly average of exactly the cut counts as high liquidity
applied_threshold_inclusive(period_volume, hours, threshold) ==
    IF period_volume >= HighLiquidityCut * hours THEN threshold ELSE FallbackThreshold

\* the volume threshold applied: dynamic by the hourly average of the period
applied_threshold(period_volume, hours, threshold) ==
    LET avg_hourly_volume == Ratio(period_volume, hours)
        is_high_liquidity ==
            avg_hourly_volume.num > HighLiquidityCut * avg_hourly_volume.den
    IN  IF is_high_liquidity THEN threshold ELSE FallbackThreshold

\* variant: a period volume of None is not looked at
period_volume_is_none_never(res) == FALSE

\* `if period_volume is None`, on what get_volume_for_period returned
period_volume_is_none(res) == res = "empty"

\* `if not klines`, on what get_klines returned
not_klines(res) == res = "empty"

\* analyze_symbol from the DataFrame on (momentum.py:146-275), for a non-empty
\* list of klines.  A mean of 0 makes current_volume / short_avg_volume raise
\* ZeroDivisionError; with fewer than 33 klines long_avg_volume is read without
\* having been assigned, which raises UnboundLocalError.
analyze(symbol, timeframe, klines, period_volume, hours, threshold, price_thr) ==
    LET n == Len(klines)
        volume_threshold_applied == applied_threshold(period_volume, hours, threshold)
        current_volume == klines[n].volume
        lo == IF n - 8 < 1 THEN 1 ELSE n - 8
        count == n - lo
        short_total == SumVolume(klines, lo, n - 1)
        long_total == SumVolume(klines, 1, n - 1)
        volume_spike_pct == Ratio((current_volume * count - short_total) * 100, short_total)
        open_price == klines[n].open
        close_price == klines[n].close
        price_change_pct == Ratio((close_price - open_price) * 100, open_price)
        volume_condition ==
            volume_spike_pct.num >= volume_threshold_applied * volume_spike_pct.den
        price_condition == price_change_pct.num >= price_thr * price_change_pct.den
    IN  IF count > 0 /\ short_total = 0 THEN DetectorRaised("ZeroDivisionError")
        ELSE IF n >= LongWindow /\ long_total = 0 THEN DetectorRaised("ZeroDivisionError")
        ELSE IF n < LongWindow THEN DetectorRaised("UnboundLocalError")
        ELSE IF open_price = 0 THEN NoDetection
        ELSE IF volume_condition /\ price_condition
        THEN Detected(MomentumSignal(symbol, volume_spike_pct, price_change_pct,
                                     klines[n].timestamp, timeframe))
        ELSE NoDetection

NoDCall == [symbol |-> "none", period_volume |-> 0, volume_res |-> "none",
            threshold |-> 0,
            klines_res |-> "none", klines |-> <<>>, asked |-> 0,
            fetches |-> 0, result |-> NoDetection]

\* analyze_symbol up to `if period_volume is None`: the period volume is
\* fetched with the default interval
AnalyzeSymbol(symbol, upstream, period_volume, lag) ==
    /\ dpc = "idle"
    /\ Fetch("volume_period", volume_window_hours, "1h", upstream, lag)
    /\ LET res == fetch'.value
           begun == [NoDCall EXCEPT !.symbol = symbol, !.fetches = 1,
                                    !.volume_res = res]
       IN  IF fetch'.exc # "none"
           THEN /\ dcall' = [begun EXCEPT !.result = DetectorRaised(fetch'.exc)]
                /\ dpc' = "idle"
           ELSE IF period_volume_is_none(res)
           THEN /\ dcall' = begun
                /\ dpc' = "idle"
           ELSE /\ dcall' = [begun EXCEPT !.period_volume = period_volume,
                                          !.threshold =
                                              applied_threshold(period_volume,
                                                                volume_window_hours,
                                                                volume_threshold),
                                          !.result = Pending]
                /\ dpc' = "klines"
    /\ UNCHANGED <<volume_window_hours, volume_threshold, price_threshold>>

\* the rest of analyze_symbol: the klines are fetched and evaluated
AnalyzeKlines(upstream, body, lag) ==
    /\ dpc = "klines"
    /\ Fetch("klines", 0, "none", upstream, lag)
    /\ LET res == IF fetch'.value = "data" /\ body = <<>> THEN "empty"
                  ELSE fetch'.value
           fetched == [dcall EXCEPT !.fetches = @ + 1, !.klines_res = res,
                                    !.asked = klines_needed(volume_window_hours) + 1]
       IN  IF fetch'.exc # "none"
           THEN dcall' = [fetched EXCEPT !.result = DetectorRaised(fetch'.exc)]
           ELSE IF not_klines(res)
           THEN dcall' = [fetched EXCEPT !.result = NoDetection]
           ELSE dcall' = [fetched EXCEPT
                            !.klines = body,
                            !.result = analyze(dcall.symbol, DetectorTimeframe, body,
                                               dcall.period_volume, volume_window_hours,
                                               volume_threshold, price_threshold)]
    /\ dpc' = "idle"
    /\ UNCHANGED <<volume_window_hours, volume_threshold, price_threshold>>

InitDetVars ==
    /\ volume_window_hours \in VolumeWindows
    /\ volume_threshold \in VolumeThresholds
    /\ price_threshold \in PriceThresholds
    /\ dpc = "idle"
    /\ dcall = NoDCall

\* the detector is not used in the other specifications
IdleDetVars ==
    /\ volume_window_hours = 0
    /\ volume_threshold = 0
    /\ price_threshold = 0
    /\ dpc = "idle"
    /\ dcall = NoDCall

---------------------------------------------------------------------------
(* MomentumScanner.run (main.py): initialize_symbols, then the scan loop.  *)
(* initialize_symbols is the universe's get_liquid_perpetuals, step by     *)
(* step as above.  Inside the loop the detector and the governor are what  *)
(* they hand back to scan_symbol, a value or an exception; what they do to *)
(* reach it is the subject of SpecDetector and SpecAlerts.  The scanner is *)
(* at "start" before run, at "initializing" inside initialize_symbols, at  *)
(* "scanning" inside run_scan_cycle, at "idle" inside the sleep that ends  *)
(* each turn of the loop and at "ended" once run has been left.            *)

\* what analyze_symbol hands back: None, a MomentumSignal, or an exception
DetectorReturns == {"none", "signal"}
DetectorRaises  == {"ZeroDivisionError", "UnboundLocalError", "IndexError", "TypeError"}

\* what send_alert hands back: a boolean, or the notifier's exception
GovernorReturns == {"true", "false"}
GovernorRaises  == {"AttributeError"}

\* variant: the loop has no handler
except_Exception_none(exc) == FALSE

\* `except Exception`: every exception the detector and the governor raise is
\* one
except_Exception(exc) == exc \in DetectorRaises \cup GovernorRaises

NoSCall == [symbol |-> "none", result |-> "none", alert |-> "none", exc |-> "none",
            caught |-> FALSE, complete |-> FALSE, at |-> 0]

ScanInterval == 300     \* scan_interval, in seconds
MaxClockScanner == 600  \* the clock of the scanner is followed up to here

\* list(a set): its elements in some order
Orderings(S) ==
    {q \in [1..Cardinality(S) -> S] : \A i, j \in 1..Cardinality(S) : q[i] = q[j] => i = j}

Range(q) == {q[i] : i \in DOMAIN q}

\* run up to the call of get_liquid_perpetuals inside initialize_symbols
InitializeSymbols ==
    /\ spc = "start"
    /\ GetLiquidPerpetuals(FALSE)
    /\ spc' = "initializing"
    /\ UNCHANGED <<scanner_symbols, scanned, scall, analyzed, alerted>>

\* get_liquid_perpetuals has returned: self.symbols is the list it returned,
\* cleanup_old_alerts() has run and the loop is entered; an exception of
\* get_liquid_perpetuals leaves run
SymbolsInitialized ==
    /\ spc = "initializing"
    /\ upc = "idle"
    /\ IF ucall.outcome = "raised"
       THEN /\ spc' = "ended"
            /\ UNCHANGED <<scanner_symbols, alerts>>
       ELSE /\ spc' = "scanning"
            /\ scanner_symbols' \in Orderings(ucall.returned)
            /\ alerts' = cleanup_old(alerts, RetentionDays, now)
    /\ UNCHANGED <<now, db_op>>
    /\ UNCHANGED <<scanned, scall, analyzed, alerted>>
    /\ UNCHANGED <<rateVars, univVars>>

\* variant: an exception at a symbol is dropped and the cycle goes on
ScanSymbol_goes_on(result, alert) ==
    /\ spc = "scanning"
    /\ Len(scanned) < Len(scanner_symbols)
    /\ LET symbol == scanner_symbols[Len(scanned) + 1]
           exc == IF result \in DetectorRaises THEN result
                  ELSE IF result = "signal" /\ alert \in GovernorRaises THEN alert
                  ELSE "none"
       IN  /\ scall' = [NoSCall EXCEPT !.symbol = symbol, !.result = result,
                                       !.alert = alert, !.exc = exc,
                                       !.caught = (exc # "none"),
                                       !.at = clock]
           /\ spc' = "scanning"
           /\ scanned' = Append(scanned, symbol)
           /\ analyzed' = analyzed \cup {symbol}
           /\ alerted' = IF result = "signal" THEN alerted \cup {symbol} ELSE alerted
    /\ UNCHANGED scanner_symbols
    /\ UNCHANGED <<rateVars, univVars>>

\* one turn of `for symbol in self.symbols`: scan_symbol(symbol), that is
\* analyze_symbol(symbol) and, for a signal, send_alert(signal); an exception
\* of either leaves the cycle for the handler of the loop
ScanSymbol(result, alert) ==
    /\ spc = "scanning"
    /\ Len(scanned) < Len(scanner_symbols)
    /\ LET symbol == scanner_symbols[Len(scanned) + 1]
           exc == IF result \in DetectorRaises THEN result
                  ELSE IF result = "signal" /\ alert \in GovernorRaises THEN alert
                  ELSE "none"
       IN  /\ scall' = [NoSCall EXCEPT !.symbol = symbol, !.result = result,
                                       !.alert = alert, !.exc = exc,
                                       !.caught = (exc # "none" /\ except_Exception(exc)),
                                       !.at = clock]
           /\ spc' = IF exc = "none" THEN "scanning"
                     ELSE IF except_Exception(exc) THEN "idle" ELSE "ended"
           /\ scanned' = Append(scanned, symbol)
           /\ analyzed' = analyzed \cup {symbol}
           /\ alerted' = IF result = "signal" THEN alerted \cup {symbol} ELSE alerted
    /\ UNCHANGED scanner_symbols
    /\ UNCHANGED <<rateVars, univVars>>

\* the for loop is exhausted: run_scan_cycle returns and run goes to sleep
ScanCycleComplete ==
    /\ spc = "scanning"
    /\ Len(scanned) = Len(scanner_symbols)
    /\ spc' = "idle"
    /\ scall' = [NoSCall EXCEPT !.complete = TRUE, !.at = clock]
    /\ UNCHANGED <<scanner_symbols, scanned, analyzed, alerted>>
    /\ UNCHANGED <<rateVars, univVars>>

\* variant: the next cycle asks the universe's cache for its list again
NextScanCycle_rereads ==
    /\ spc = "idle"
    /\ spc' = "scanning"
    /\ scanned' = <<>>
    /\ scall' = NoSCall
    /\ scanner_symbols' \in Orderings(liquid_symbols)
    /\ clock' = IF clock + ScanInterval <= MaxClockScanner THEN clock + ScanInterval
                ELSE clock
    /\ UNCHANGED <<analyzed, alerted>>
    /\ UNCHANGED <<rate_limit, request_times, issued, fetch>>
    /\ UNCHANGED univVars

\* asyncio.sleep(scan_interval) is over: the next turn of `while True`
NextScanCycle ==
    /\ spc = "idle"
    /\ spc' = "scanning"
    /\ scanned' = <<>>
    /\ scall' = NoSCall
    /\ clock' = IF clock + ScanInterval <= MaxClockScanner THEN clock + ScanInterval
                ELSE clock
    /\ UNCHANGED <<scanner_symbols, analyzed, alerted>>
    /\ UNCHANGED <<rate_limit, request_times, issued, fetch>>
    /\ UNCHANGED univVars

InitScanVars ==
    /\ spc = "start"
    /\ scanner_symbols = <<>>
    /\ scanned = <<>>
    /\ scall = NoSCall
    /\ analyzed = {}
    /\ alerted = {}

\* the scanner is not used in the other specifications
IdleScanVars ==
    /\ spc = "none"
    /\ scanner_symbols = <<>>
    /\ scanned = <<>>
    /\ scall = NoSCall
    /\ analyzed = {}
    /\ alerted = {}

---------------------------------------------------------------------------
(* Config (config.py): the settings validate looks at, and the volume      *)
(* threshold and the rate limit, which it does not look at.  The webhook   *)
(* URL is "" when it is missing; volume_zscore_threshold is a float in the *)
(* code and a whole number here.                                           *)

DefaultLookbackPeriods == 8
DefaultVolumeZscoreThreshold == 2
DefaultCooldownMinutes == 30
DefaultRateLimit == 1200
MinLookbackPeriods == 2

\* the fields of UniverseConfig, RestConfig, SignalsConfig and AlertsConfig;
\* those no claim varies are at their defaults
Settings(url, lookback, zscore, minimum, cooldown, limit) ==
    [cache_ttl |-> 3600, min_hourly_volume |-> minimum,
     rate_limit |-> limit,
     timeframe |-> "15m", lookback_periods |-> lookback,
     volume_zscore_threshold |-> zscore, price_change_threshold |-> Ratio(5, 100),
     use_atr_normalization |-> TRUE,
     cooldown_minutes |-> cooldown, discord_webhook_url |-> url]

\* Config(): every default
DefaultConfig ==
    Settings("", DefaultLookbackPeriods, DefaultVolumeZscoreThreshold, MinHourlyVolume,
             DefaultCooldownMinutes, DefaultRateLimit)

\* what a file or the environment may set
WebhookURLs      == {"", "https://test.url"}
LookbackPeriods  == {1, 2, 8}
ZscoreThresholds == {-1, 2}
MinHourlyVolumes == {-1, 0, 1000}
CooldownMinutes  == {-1, 0, 30}
RateLimits       == {1200}

\* Config.validate: the message of the ValueError it raises, "none" when it
\* returns
validate(c) ==
    IF c.discord_webhook_url = "" THEN "Discord webhook URL is required"
    ELSE IF c.lookback_periods < MinLookbackPeriods
    THEN "Lookback periods must be at least 2"
    ELSE IF c.min_hourly_volume < 0 THEN "Min hourly volume must be non-negative"
    ELSE IF c.cooldown_minutes < 0 THEN "Alert cooldown must be non-negative"
    ELSE "none"

NoCfg == [op |-> "none", raised |-> "none", returned |-> FALSE]

\* load_config: from_yaml or from_env, then validate, then return
LoadConfig(c) ==
    /\ config' = c
    /\ cfg' = [op |-> "load_config", raised |-> validate(c),
               returned |-> validate(c) = "none"]

\* config = Config()
NewConfig ==
    /\ config' = DefaultConfig
    /\ cfg' = [NoCfg EXCEPT !.op = "Config"]

\* config.alerts.discord_webhook_url = url
SetWebhookURL(url) ==
    /\ config' = [config EXCEPT !.discord_webhook_url = url]
    /\ cfg' = [NoCfg EXCEPT !.op = "set_webhook_url"]

\* config.validate()
Validate ==
    /\ cfg' = [op |-> "validate", raised |-> validate(config),
               returned |-> validate(config) = "none"]
    /\ UNCHANGED config

InitCfgVars ==
    /\ config = DefaultConfig
    /\ cfg = NoCfg

\* the configuration is not used in the other specifications
IdleCfgVars ==
    /\ config = DefaultConfig
    /\ cfg = NoCfg

---------------------------------------------------------------------------
(* main() (main.py:167-208): load_config, then MomentumScanner(config).    *)
(* main is at "main" before load_config, at "returned" once it has         *)
(* returned because load_config raised, at "loaded" with a Config, at      *)
(* "constructed" with a MomentumScanner and at "raised" once an exception  *)
(* of the constructor has left it.                                         *)

\* the components MomentumScanner.__init__ builds, in its order
Components == <<"rest_client", "universe", "momentum_detector", "discord_notifier",
                "dedup_db", "alert_manager">>

\* the attributes of the Config each constructor call reads
ConfigAttributes(component) ==
    IF component = "rest_client" THEN {"rate_limit"}
    ELSE IF component = "universe" THEN {"min_hourly_volume", "cache_ttl"}
    ELSE IF component = "momentum_detector"
    THEN {"timeframe", "lookback_periods", "volume_window_hours",
          "volume_zscore_threshold", "price_change_threshold"}
    ELSE IF component = "discord_notifier" THEN {"discord_webhook_url"}
    ELSE IF component = "alert_manager" THEN {"cooldown_minutes"}
    ELSE {}

\* how many components are built before an attribute the Config lacks is read
built(c) ==
    LET missing == {i \in 1..Len(Components) :
                        ~(ConfigAttributes(Components[i]) \subseteq DOMAIN c)}
    IN  IF missing = {} THEN Len(Components)
        ELSE (CHOOSE i \in missing : \A j \in missing : i <= j) - 1

NoStartup == [pc |-> "main", built |-> 0, exc |-> "none"]

\* config = load_config(config_path) inside the try of main
MainLoadConfig(c) ==
    /\ startup.pc = "main"
    /\ LoadConfig(c)
    /\ startup' = [startup EXCEPT !.pc = IF validate(c) = "none" THEN "loaded"
                                        ELSE "returned"]

\* scanner = MomentumScanner(config)
MomentumScannerInit ==
    /\ startup.pc = "loaded"
    /\ startup' = IF built(config) = Len(Components)
                  THEN [pc |-> "constructed", built |-> built(config), exc |-> "none"]
                  ELSE [pc |-> "raised", built |-> built(config),
                        exc |-> "AttributeError"]
    /\ UNCHANGED cfgVars

InitStartVars == startup = NoStartup

\* main is not used in the other specifications
IdleStartVars == startup = NoStartup

---------------------------------------------------------------------------
(* api_call.wrapper (instrumentation.py) with its observability: the       *)
(* extraction of the tracked parameters before the call, the metric and    *)
(* the log record after it, the MetricsCollector in the finally block.     *)

MaxMetrics == 3

\* how the extraction of the parameters and the recording of the metric end
Observability == {"ok", "fails"}

\* track_parameters is given for klines and volume_period only
track_parameters(endpoint) == endpoint \in {"klines", "volume_period"}

\* the APIMetrics record as the finally block finds it
APIMetrics(endpoint, res, extraction) ==
    [endpoint |-> endpoint,
     success |-> res.exc = "none",
     error_type |-> res.exc,
     parameters |-> track_parameters(endpoint) /\ extraction = "ok"]

\* MetricsCollector.record_metric
record_metric(c, metric) ==
    [total_calls |-> c.total_calls + 1,
     total_errors |-> IF metric.success THEN c.total_errors ELSE c.total_errors + 1]

\* variant: an exception of the metrics sink leaves the wrapper
wrapper_sink_raises(endpoint, res, extraction, sink, c) ==
    LET metric == APIMetrics(endpoint, res, extraction)
    IN  IF sink = "fails"
        THEN [out |-> Raise("MetricsError"), metric |-> metric, recorded |-> FALSE,
              collector |-> c]
        ELSE [out |-> res, metric |-> metric, recorded |-> TRUE,
              collector |-> record_metric(c, metric)]

\* api_call.wrapper around a function that ends as res: the parameters are
\* extracted inside a try whose handler logs; the result is returned or the
\* exception re-raised; the finally block records the metric inside a try
\* whose handler logs
wrapper(endpoint, res, extraction, sink, c) ==
    LET metric == APIMetrics(endpoint, res, extraction)
        out == IF res.exc = "none" THEN Return(res.value) ELSE Raise(res.exc)
    IN  IF sink = "fails"
        THEN [out |-> out, metric |-> metric, recorded |-> FALSE, collector |-> c]
        ELSE [out |-> out, metric |-> metric, recorded |-> TRUE,
              collector |-> record_metric(c, metric)]

\* the undecorated function: the limiter, then the body
Unwrapped(endpoint, limiter_raises, upstream) ==
    IF limiter_raises THEN Raise("IndexError")
    ELSE IF endpoint = "24hr_tickers" THEN get_24hr_tickers(upstream)
    ELSE IF endpoint = "exchange_info" THEN get_exchange_info(upstream)
    ELSE IF endpoint = "klines" THEN get_klines(upstream)
    ELSE get_volume_for_period(8, "1h", upstream)

NoWCall == [endpoint |-> "none", unwrapped |-> Return("none"), extraction |-> "none",
            sink |-> "none", wrapped |-> Return("none"), recorded |-> FALSE,
            before |-> [total_calls |-> 0, total_errors |-> 0]]

\* one call of a decorated fetch operation
WrappedCall(endpoint, limiter_raises, upstream, extraction, sink) ==
    /\ collector.total_calls < MaxMetrics
    /\ LET res == Unwrapped(endpoint, limiter_raises, upstream)
           w == wrapper(endpoint, res, extraction, sink, collector)
       IN  /\ collector' = w.collector
           /\ wcall' = [endpoint |-> endpoint, unwrapped |-> res,
                        extraction |-> extraction, sink |-> sink,
                        wrapped |-> w.out, recorded |-> w.recorded,
                        before |-> collector]

InitWrapVars ==
    /\ collector = [total_calls |-> 0, total_errors |-> 0]
    /\ wcall = NoWCall

\* the wrapper's observability is not used in the other specifications
IdleWrapVars ==
    /\ collector = [total_calls |-> 0, total_errors |-> 0]
    /\ wcall = NoWCall

---------------------------------------------------------------------------
(* BinanceRestClient._check_rate_limit under concurrent callers            *)
(*                                                                         *)
(* The whole body of _check_rate_limit is inside "with self.lock:"         *)
(* (rest_client.py:37-52).  A caller is followed through the statements of *)
(* the body: the first clock read with the pruning and the budget test,    *)
(* the sleep, the second clock read with the append, and the end of the    *)
(* with block.  The clock may advance between any two of them.             *)

MaxCallsLimiter == 3   \* calls of _check_rate_limit, of all threads together

\* the threads inside the body of _check_rate_limit
InLimiter == {th \in Threads : lpc[th] # "start"}

\* the calls finished or in progress
LimiterCalls == ldone[1] + ldone[2] + Cardinality(InLimiter)

NoLCall == [times |-> <<>>, t |-> 0, slept |-> 0, at |-> 0, raised |-> FALSE]

\* variant: the body runs without taking the lock
LimiterAcquire_no_lock(th) ==
    /\ lpc[th] = "start"
    /\ LimiterCalls < MaxCallsLimiter
    /\ llock' = th
    /\ lpc' = [lpc EXCEPT ![th] = "locked"]
    /\ lcall' = [lcall EXCEPT ![th] = NoLCall]
    /\ UNCHANGED <<ldone, rateVars>>

\* with self.lock: blocks until the lock is free
LimiterAcquire(th) ==
    /\ lpc[th] = "start"
    /\ LimiterCalls < MaxCallsLimiter
    /\ llock = 0
    /\ llock' = th
    /\ lpc' = [lpc EXCEPT ![th] = "locked"]
    /\ lcall' = [lcall EXCEPT ![th] = NoLCall]
    /\ UNCHANGED <<ldone, rateVars>>

\* now = time.time(); the pruning; the budget test and sleep_time.
\* request_times[0] of an empty list raises IndexError, which leaves the body.
LimiterPrune(th) ==
    LET pruned     == Prune(request_times, clock)
        sleep_time == Window - (clock - pruned[1])
    IN  /\ lpc[th] = "locked"
        /\ request_times' = pruned
        /\ lcall' = [lcall EXCEPT ![th] =
                        [NoLCall EXCEPT !.times = request_times, !.t = clock,
                            !.raised = Len(pruned) >= rate_limit /\ pruned = <<>>,
                            !.slept = IF Len(pruned) >= rate_limit /\ pruned # <<>>
                                         /\ sleep_time > 0
                                      THEN sleep_time ELSE 0]]
        /\ lpc' = [lpc EXCEPT ![th] =
                        IF Len(pruned) >= rate_limit
                        THEN IF pruned = <<>> THEN "raised"
                             ELSE IF sleep_time > 0 THEN "sleeping" ELSE "append"
                        ELSE "append"]
        /\ UNCHANGED <<llock, ldone, clock, rate_limit, issued, fetch>>

\* time.sleep(sleep_time): the thread goes on once the time is over
LimiterSleep(th) ==
    /\ lpc[th] = "sleeping"
    /\ clock' = IF clock < lcall[th].t + lcall[th].slept
                THEN lcall[th].t + lcall[th].slept ELSE clock
    /\ lpc' = [lpc EXCEPT ![th] = "append"]
    /\ UNCHANGED <<llock, lcall, ldone, rate_limit, request_times, issued, fetch>>

\* self.request_times.append(time.time())
LimiterAppend(th, lag) ==
    /\ lpc[th] = "append"
    /\ clock' = clock + lag
    /\ request_times' = Append(request_times, clock + lag)
    /\ issued' = Append(issued, clock + lag)
    /\ lcall' = [lcall EXCEPT ![th].at = clock + lag]
    /\ lpc' = [lpc EXCEPT ![th] = "recorded"]
    /\ UNCHANGED <<llock, ldone, rate_limit, fetch>>

\* leaving the with block, by the end of the body or by the exception
LimiterRelease(th) ==
    /\ lpc[th] \in {"recorded", "raised"}
    /\ llock' = IF llock = th THEN 0 ELSE llock
    /\ lpc' = [lpc EXCEPT ![th] = "start"]
    /\ ldone' = [ldone EXCEPT ![th] = @ + 1]
    /\ UNCHANGED <<lcall, rateVars>>

\* time passes, wherever the threads are
ClockAdvanceLimiter ==
    /\ ClockAdvance
    /\ UNCHANGED limVars

InitLimVars ==
    /\ llock = 0
    /\ lpc = [th \in Threads |-> "start"]
    /\ lcall = [th \in Threads |-> NoLCall]
    /\ ldone = [th \in Threads |-> 0]

\* no thread calls the limiter in the other specifications
IdleLimVars ==
    /\ llock = 0
    /\ lpc = [th \in Threads |-> "start"]
    /\ lcall = [th \in Threads |-> NoLCall]
    /\ ldone = [th \in Threads |-> MaxCallsLimiter]

---------------------------------------------------------------------------
(* AlertManager.send_alert under concurrent callers                        *)
(*                                                                         *)
(* AlertManager holds no lock (manager.py:24-40).  A caller is followed    *)
(* through can_alert (lines 90-92), the call of the notifier (line 98) and *)
(* _record_alert (line 101); another caller may run between any two of     *)
(* them, and the clock may advance.                                        *)

MaxTimeSender == 2   \* the clock stops advancing here (SpecSender)

\* the signals handed to send_alert: one pair of an exchange symbol and a
\* timeframe, and two pairs whose strings hold the delimiter of the cooldown key
SenderSignals == {Signal("BTCUSDT", "15m", 1234567890),
                  Signal("BTC:USDT", "15m", 1234567890),
                  Signal("BTC", "USDT:15m", 1234567890)}

SignalPair(g) == <<g.symbol, g.timeframe>>

NoCCall == [signal |-> NoSignal, existed |-> FALSE, cooling |-> FALSE,
            passed |-> FALSE, outcome |-> "none", stored |-> FALSE, at |-> 0]

\* send_alert, lines 90-92: the can_alert gate.  existed and cooling say what
\* the two tiers had to go by: a row of the signal's own triple, a delivery to
\* the signal's own pair inside the cooldown.
SenderCanAlert(th) ==
    LET g      == ccall[th].signal
        passed == can_alert(alerts, last_alert_times, cooldown_minutes, now,
                            g.symbol, g.timeframe, g.candle_timestamp)
        pair   == SignalPair(g)
    IN  /\ cpc[th] = "start"
        /\ ccall' = [ccall EXCEPT ![th] =
                        [NoCCall EXCEPT
                            !.signal  = g,
                            !.existed = (\E r \in alerts : RowTriple(r) = SignalTriple(g)),
                            !.cooling = (/\ pair \in DOMAIN last_delivery
                                         /\ now - last_delivery[pair]
                                                < CooldownTicks(cooldown_minutes)),
                            !.passed  = passed,
                            !.at      = now]]
        /\ cpc' = [cpc EXCEPT ![th] = IF passed THEN "notify" ELSE "done"]
        /\ UNCHANGED <<dbVars, mgrVars, notified>>

\* send_alert, lines 94-100: the notifier call
SenderNotify(th, outcome) ==
    /\ cpc[th] = "notify"
    /\ notified' = Append(notified, ccall[th].signal)
    /\ ccall' = [ccall EXCEPT ![th].outcome = outcome]
    /\ cpc' = [cpc EXCEPT ![th] = IF outcome = "ok" THEN "record" ELSE "done"]
    /\ UNCHANGED <<dbVars, mgrVars>>

\* send_alert, line 101: _record_alert
SenderRecord(th) ==
    LET g    == ccall[th].signal
        rec  == record_alert(alerts, last_alert_times, g, now)
        pair == SignalPair(g)
    IN  /\ cpc[th] = "record"
        /\ alerts' = rec.db
        /\ last_alert_times' = rec.times
        /\ last_delivery' = [q \in DOMAIN last_delivery \cup {pair} |->
                                IF q = pair THEN now ELSE last_delivery[q]]
        /\ ccall' = [ccall EXCEPT ![th].stored = rec.stored]
        /\ cpc' = [cpc EXCEPT ![th] = "done"]
        /\ UNCHANGED <<now, db_op, cooldown_minutes, pc, call, entry, delivered,
                       purged, notified>>

TickSender ==
    /\ now < MaxTimeSender
    /\ now' = now + 1
    /\ UNCHANGED <<alerts, db_op, mgrVars, sendVars>>

InitSendVars ==
    /\ cpc = [th \in Threads |-> "start"]
    /\ ccall \in {[th \in Threads |-> [NoCCall EXCEPT !.signal = f[th]]] :
                    f \in [Threads -> SenderSignals]}
    /\ notified = <<>>

\* no thread calls send_alert in the other specifications
IdleSendVars ==
    /\ cpc = [th \in Threads |-> "done"]
    /\ ccall = [th \in Threads |-> NoCCall]
    /\ notified = <<>>

---------------------------------------------------------------------------
(* Specifications *)

InitDB == InitDBVars /\ InitMgrVars /\ IdleConcVars /\ IdleRateVars /\ IdleUnivVars /\ IdleDetVars /\ IdleScanVars /\ IdleCfgVars /\ IdleWrapVars /\ IdleStartVars /\ IdleLimVars /\ IdleSendVars /\ cooldown_minutes = 0

NextDB ==
    \/ \E tr \in DBTriples, signature \in Signatures :
            /\ StoreAlertOp(tr[1], tr[2], tr[3], signature)
            /\ UNCHANGED <<mgrVars, concVars, rateVars, univVars, detVars, scanVars, cfgVars, wrapVars, startVars, limVars, sendVars>>
    \/ \E tr \in DBTriples :
            /\ AlertExistsOp(tr[1], tr[2], tr[3])
            /\ UNCHANGED <<mgrVars, concVars, rateVars, univVars, detVars, scanVars, cfgVars, wrapVars, startVars, limVars, sendVars>>
    \/ \E days \in 0..MaxDays : CleanupOldOp(days) /\ UNCHANGED <<mgrVars, concVars, rateVars, univVars, detVars, scanVars, cfgVars, wrapVars, startVars, limVars, sendVars>>
    \/ TickDB /\ UNCHANGED <<mgrVars, concVars, rateVars, univVars, detVars, scanVars, cfgVars, wrapVars, startVars, limVars, sendVars>>

SpecDB == InitDB /\ [][NextDB]_vars

InitAlerts == InitDBVars /\ InitMgrVars /\ IdleConcVars /\ IdleRateVars /\ IdleUnivVars /\ IdleDetVars /\ IdleScanVars /\ IdleCfgVars /\ IdleWrapVars /\ IdleStartVars /\ IdleLimVars /\ IdleSendVars

NextAlerts ==
    \/ \E g \in Signals : SendAlertCall(g) /\ UNCHANGED <<concVars, rateVars, univVars, detVars, scanVars, cfgVars, wrapVars, startVars, limVars, sendVars>>
    \/ \E outcome \in NotifierOutcomes : NotifierSend(outcome) /\ UNCHANGED <<concVars, rateVars, univVars, detVars, scanVars, cfgVars, wrapVars, startVars, limVars, sendVars>>
    \/ RecordAlert /\ UNCHANGED <<concVars, rateVars, univVars, detVars, scanVars, cfgVars, wrapVars, startVars, limVars, sendVars>>
    \/ Restart /\ UNCHANGED <<concVars, rateVars, univVars, detVars, scanVars, cfgVars, wrapVars, startVars, limVars, sendVars>>
    \/ Tick /\ UNCHANGED <<concVars, rateVars, univVars, detVars, scanVars, cfgVars, wrapVars, startVars, limVars, sendVars>>

SpecAlerts == InitAlerts /\ [][NextAlerts]_vars

\* the table as an earlier run left it: empty, or holding a row for the first triple
InitConc ==
    /\ now = 0
    /\ alerts \in {{}, {Row("BTCUSDT", "15m", 1234567890, "sig1", 0)}}
    /\ db_op = NoOp
    /\ InitMgrVars /\ cooldown_minutes = 0
    /\ InitConcVars
    /\ IdleRateVars /\ IdleUnivVars /\ IdleDetVars /\ IdleScanVars /\ IdleCfgVars /\ IdleWrapVars /\ IdleStartVars /\ IdleLimVars /\ IdleSendVars

NextConc ==
    \/ \E th \in Threads : Acquire(th) /\ UNCHANGED <<rateVars, univVars, detVars, scanVars, cfgVars, wrapVars, startVars, limVars, sendVars>>
    \/ \E th \in Threads : Execute(th) /\ UNCHANGED <<rateVars, univVars, detVars, scanVars, cfgVars, wrapVars, startVars, limVars, sendVars>>
    \/ \E th \in Threads : Release(th) /\ UNCHANGED <<rateVars, univVars, detVars, scanVars, cfgVars, wrapVars, startVars, limVars, sendVars>>
    \/ TickConc /\ UNCHANGED <<rateVars, univVars, detVars, scanVars, cfgVars, wrapVars, startVars, limVars, sendVars>>

SpecConc == InitConc /\ [][NextConc]_vars

InitRate ==
    /\ InitDBVars /\ InitMgrVars /\ cooldown_minutes = 0 /\ IdleConcVars
    /\ InitRateVars /\ IdleUnivVars /\ IdleDetVars /\ IdleScanVars /\ IdleCfgVars /\ IdleWrapVars /\ IdleStartVars /\ IdleLimVars /\ IdleSendVars

\* the limiter under every mix of operations, each answered normally
NextRate ==
    \/ \E endpoint \in Endpoints :
            /\ Len(issued) < MaxCalls
            /\ \E lag \in 0..MaxLag : Fetch(endpoint, 8, "1h", "ok", lag)
            /\ UNCHANGED <<dbVars, mgrVars, concVars, univVars, detVars, scanVars, cfgVars, wrapVars, startVars, limVars, sendVars>>
    \/ ClockAdvance /\ UNCHANGED <<dbVars, mgrVars, concVars, univVars, detVars, scanVars, cfgVars, wrapVars, startVars, limVars, sendVars>>

SpecRate == InitRate /\ [][NextRate]_vars

InitFetch ==
    /\ InitDBVars /\ InitMgrVars /\ cooldown_minutes = 0 /\ IdleConcVars
    /\ InitRateVars /\ IdleUnivVars /\ IdleDetVars /\ IdleScanVars /\ IdleCfgVars /\ IdleWrapVars /\ IdleStartVars /\ IdleLimVars /\ IdleSendVars
    /\ rate_limit <= MaxRateLimitFetch

\* the operations under every argument and every answer of the exchange
NextFetch ==
    \/ \E endpoint \in Endpoints \ {"volume_period"}, upstream \in Upstream :
            /\ Len(issued) < MaxCallsFetch
            /\ \E lag \in 0..MaxLag : Fetch(endpoint, 0, "none", upstream, lag)
            /\ UNCHANGED <<dbVars, mgrVars, concVars, univVars, detVars, scanVars, cfgVars, wrapVars, startVars, limVars, sendVars>>
    \/ \E hours \in Hours, interval \in Intervals, upstream \in Upstream :
            /\ Len(issued) < MaxCallsFetch
            /\ \E lag \in 0..MaxLag : Fetch("volume_period", hours, interval, upstream, lag)
            /\ UNCHANGED <<dbVars, mgrVars, concVars, univVars, detVars, scanVars, cfgVars, wrapVars, startVars, limVars, sendVars>>
    \/ \E hours \in Hours, interval \in IntervalInputs \ Intervals :
            /\ Len(issued) < MaxCallsFetch
            /\ \E lag \in 0..MaxLag : Fetch("volume_period", hours, interval, "ok", lag)
            /\ UNCHANGED <<dbVars, mgrVars, concVars, univVars, detVars, scanVars, cfgVars, wrapVars, startVars, limVars, sendVars>>
    \/ clock < MaxClockFetch /\ ClockAdvance /\ UNCHANGED <<dbVars, mgrVars, concVars, univVars, detVars, scanVars, cfgVars, wrapVars, startVars, limVars, sendVars>>

SpecFetch == InitFetch /\ [][NextFetch]_vars

InitUniverse ==
    /\ InitDBVars /\ InitMgrVars /\ cooldown_minutes = 0 /\ IdleConcVars
    /\ InitRateVars /\ rate_limit = MaxRateLimit
    /\ InitUnivVars /\ IdleDetVars /\ IdleScanVars /\ IdleCfgVars /\ IdleWrapVars /\ IdleStartVars /\ IdleLimVars /\ IdleSendVars

NextUniverse ==
    \/ \E force_refresh \in BOOLEAN :
            /\ Len(issued) + 2 <= MaxFetchesUniverse
            /\ GetLiquidPerpetuals(force_refresh)
            /\ UNCHANGED <<dbVars, mgrVars, concVars, detVars, scanVars, cfgVars, wrapVars, startVars, limVars, sendVars>>
    \/ \E upstream \in UniverseUpstream :
       \E body \in IF upstream = "ok" THEN TickerResponses ELSE {EmptyMap} :
            FetchTickers(upstream, body) /\ UNCHANGED <<dbVars, mgrVars, concVars, detVars, scanVars, cfgVars, wrapVars, startVars, limVars, sendVars>>
    \/ \E upstream \in UniverseUpstream :
       \E body \in IF upstream = "ok" THEN ExchangeInfoResponses ELSE {EmptyMap} :
            FetchExchangeInfo(upstream, body) /\ UNCHANGED <<dbVars, mgrVars, concVars, detVars, scanVars, cfgVars, wrapVars, startVars, limVars, sendVars>>
    \/ AssignSymbols /\ UNCHANGED <<dbVars, mgrVars, concVars, detVars, scanVars, cfgVars, wrapVars, startVars, limVars, sendVars>>
    \/ AssignLiquidSymbols /\ UNCHANGED <<dbVars, mgrVars, concVars, detVars, scanVars, cfgVars, wrapVars, startVars, limVars, sendVars>>
    \/ AssignLastUpdate /\ UNCHANGED <<dbVars, mgrVars, concVars, detVars, scanVars, cfgVars, wrapVars, startVars, limVars, sendVars>>
    \/ ClockAdvanceUniverse /\ UNCHANGED <<dbVars, mgrVars, concVars, detVars, scanVars, cfgVars, wrapVars, startVars, limVars, sendVars>>

SpecUniverse == InitUniverse /\ [][NextUniverse]_vars


InitDetector ==
    /\ InitDBVars /\ InitMgrVars /\ cooldown_minutes = 0 /\ IdleConcVars
    /\ InitRateVars /\ rate_limit = MaxRateLimit
    /\ IdleUnivVars
    /\ InitDetVars /\ IdleScanVars /\ IdleCfgVars /\ IdleWrapVars /\ IdleStartVars /\ IdleLimVars /\ IdleSendVars

NextDetector ==
    \/ \E symbol \in Symbols, upstream \in UniverseUpstream :
       \E period_volume \in IF upstream = "ok" THEN PeriodVolumes ELSE {0} :
            /\ Len(issued) + 2 <= MaxFetchesDetector
            /\ AnalyzeSymbol(symbol, upstream, period_volume, 0)
            /\ UNCHANGED <<dbVars, mgrVars, concVars, univVars, scanVars, cfgVars, wrapVars, startVars, limVars, sendVars>>
    \/ \E upstream \in UniverseUpstream :
       \E body \in IF upstream = "ok" THEN KlineResponses ELSE {<<>>} :
            /\ AnalyzeKlines(upstream, body, 0)
            /\ UNCHANGED <<dbVars, mgrVars, concVars, univVars, scanVars, cfgVars, wrapVars, startVars, limVars, sendVars>>
    \/ ClockAdvance /\ UNCHANGED <<dbVars, mgrVars, concVars, univVars, detVars, scanVars, cfgVars, wrapVars, startVars, limVars, sendVars>>

SpecDetector == InitDetector /\ [][NextDetector]_vars


\* the scanner: a fresh universe, and rate limit enough for the two fetches of
\* initialize_symbols
InitScanner ==
    /\ InitDBVars /\ InitMgrVars /\ cooldown_minutes = 0 /\ IdleConcVars
    /\ InitRateVars /\ rate_limit = MaxRateLimit
    /\ InitUnivVars /\ IdleDetVars
    /\ InitScanVars /\ IdleCfgVars /\ IdleWrapVars /\ IdleStartVars /\ IdleLimVars /\ IdleSendVars

NextScanner ==
    \/ InitializeSymbols /\ UNCHANGED <<dbVars, mgrVars, concVars, detVars, cfgVars, wrapVars, startVars, limVars, sendVars>>
    \/ \E upstream \in UniverseUpstream :
       \E body \in IF upstream = "ok" THEN TickerResponses ELSE {EmptyMap} :
            /\ spc = "initializing"
            /\ FetchTickers(upstream, body)
            /\ UNCHANGED <<dbVars, mgrVars, concVars, detVars, scanVars, cfgVars, wrapVars, startVars, limVars, sendVars>>
    \/ \E upstream \in UniverseUpstream :
       \E body \in IF upstream = "ok" THEN ExchangeInfoResponses ELSE {EmptyMap} :
            /\ spc = "initializing"
            /\ FetchExchangeInfo(upstream, body)
            /\ UNCHANGED <<dbVars, mgrVars, concVars, detVars, scanVars, cfgVars, wrapVars, startVars, limVars, sendVars>>
    \/ spc = "initializing" /\ AssignSymbols
            /\ UNCHANGED <<dbVars, mgrVars, concVars, detVars, scanVars, cfgVars, wrapVars, startVars, limVars, sendVars>>
    \/ spc = "initializing" /\ AssignLiquidSymbols
            /\ UNCHANGED <<dbVars, mgrVars, concVars, detVars, scanVars, cfgVars, wrapVars, startVars, limVars, sendVars>>
    \/ spc = "initializing" /\ AssignLastUpdate
            /\ UNCHANGED <<dbVars, mgrVars, concVars, detVars, scanVars, cfgVars, wrapVars, startVars, limVars, sendVars>>
    \/ SymbolsInitialized /\ UNCHANGED <<mgrVars, concVars, detVars, cfgVars, wrapVars, startVars, limVars, sendVars>>
    \/ \E result \in DetectorReturns \cup DetectorRaises :
       \E alert \in IF result = "signal" THEN GovernorReturns \cup GovernorRaises
                    ELSE {"none"} :
            /\ ScanSymbol(result, alert)
            /\ UNCHANGED <<dbVars, mgrVars, concVars, detVars, cfgVars, wrapVars, startVars, limVars, sendVars>>
    \/ ScanCycleComplete /\ UNCHANGED <<dbVars, mgrVars, concVars, detVars, cfgVars, wrapVars, startVars, limVars, sendVars>>
    \/ NextScanCycle /\ UNCHANGED <<dbVars, mgrVars, concVars, detVars, cfgVars, wrapVars, startVars, limVars, sendVars>>

SpecScanner == InitScanner /\ [][NextScanner]_vars

\* run is the one task of the event loop (main.py:207-212): whatever step it
\* is at is taken in the end; analyze_symbol, send_alert and the sleeps return
\* or raise
SpecScannerFair == SpecScanner /\ WF_vars(NextScanner)

InitConfig ==
    /\ InitDBVars /\ InitMgrVars /\ cooldown_minutes = 0 /\ IdleConcVars
    /\ IdleRateVars /\ IdleUnivVars /\ IdleDetVars /\ IdleScanVars
    /\ InitCfgVars /\ IdleWrapVars /\ IdleStartVars /\ IdleLimVars /\ IdleSendVars

NextConfig ==
    \/ \E url \in WebhookURLs, lookback \in LookbackPeriods, zscore \in ZscoreThresholds,
          minimum \in MinHourlyVolumes, cooldown \in CooldownMinutes, limit \in RateLimits :
            /\ LoadConfig(Settings(url, lookback, zscore, minimum, cooldown, limit))
            /\ UNCHANGED <<dbVars, mgrVars, concVars, rateVars, univVars, detVars, scanVars, wrapVars, startVars, limVars, sendVars>>
    \/ NewConfig
            /\ UNCHANGED <<dbVars, mgrVars, concVars, rateVars, univVars, detVars, scanVars, wrapVars, startVars, limVars, sendVars>>
    \/ \E url \in WebhookURLs :
            /\ SetWebhookURL(url)
            /\ UNCHANGED <<dbVars, mgrVars, concVars, rateVars, univVars, detVars, scanVars, wrapVars, startVars, limVars, sendVars>>
    \/ Validate
            /\ UNCHANGED <<dbVars, mgrVars, concVars, rateVars, univVars, detVars, scanVars, wrapVars, startVars, limVars, sendVars>>

SpecConfig == InitConfig /\ [][NextConfig]_vars


InitWrapper ==
    /\ InitDBVars /\ InitMgrVars /\ cooldown_minutes = 0 /\ IdleConcVars
    /\ IdleRateVars /\ IdleUnivVars /\ IdleDetVars /\ IdleScanVars /\ IdleCfgVars
    /\ InitWrapVars /\ IdleStartVars /\ IdleLimVars /\ IdleSendVars

\* every decorated operation, every way it ends, with and without failures of
\* the parameter extraction and of the metrics sink
NextWrapper ==
    \/ \E endpoint \in Endpoints, upstream \in Upstream, sink \in Observability :
       \E extraction \in IF track_parameters(endpoint) THEN Observability ELSE {"none"} :
            /\ WrappedCall(endpoint, FALSE, upstream, extraction, sink)
            /\ UNCHANGED <<dbVars, mgrVars, concVars, rateVars, univVars, detVars,
                           scanVars, cfgVars, startVars, limVars, sendVars>>
    \/ \E endpoint \in Endpoints, sink \in Observability :
       \E extraction \in IF track_parameters(endpoint) THEN Observability ELSE {"none"} :
            /\ WrappedCall(endpoint, TRUE, "ok", extraction, sink)
            /\ UNCHANGED <<dbVars, mgrVars, concVars, rateVars, univVars, detVars,
                           scanVars, cfgVars, startVars, limVars, sendVars>>

SpecWrapper == InitWrapper /\ [][NextWrapper]_vars


InitStartup ==
    /\ InitDBVars /\ InitMgrVars /\ cooldown_minutes = 0 /\ IdleConcVars
    /\ IdleRateVars /\ IdleUnivVars /\ IdleDetVars /\ IdleScanVars
    /\ InitCfgVars /\ IdleWrapVars /\ InitStartVars /\ IdleLimVars /\ IdleSendVars

NextStartup ==
    \/ \E url \in WebhookURLs, lookback \in LookbackPeriods, zscore \in ZscoreThresholds,
          minimum \in MinHourlyVolumes, cooldown \in CooldownMinutes, limit \in RateLimits :
            /\ MainLoadConfig(Settings(url, lookback, zscore, minimum, cooldown, limit))
            /\ UNCHANGED <<dbVars, mgrVars, concVars, rateVars, univVars, detVars,
                           scanVars, wrapVars, limVars, sendVars>>
    \/ MomentumScannerInit
            /\ UNCHANGED <<dbVars, mgrVars, concVars, rateVars, univVars, detVars,
                           scanVars, wrapVars, limVars, sendVars>>

SpecStartup == InitStartup /\ [][NextStartup]_vars


InitLimiter ==
    /\ InitDBVars /\ InitMgrVars /\ cooldown_minutes = 0 /\ IdleConcVars
    /\ InitRateVars /\ IdleUnivVars /\ IdleDetVars /\ IdleScanVars /\ IdleCfgVars
    /\ IdleWrapVars /\ IdleStartVars /\ InitLimVars /\ IdleSendVars

\* two threads calling the limiter, the clock advancing at any moment
NextLimiter ==
    \/ \E th \in Threads : LimiterAcquire(th)
            /\ UNCHANGED <<dbVars, mgrVars, concVars, univVars, detVars, scanVars,
                           cfgVars, wrapVars, startVars, sendVars>>
    \/ \E th \in Threads : LimiterPrune(th)
            /\ UNCHANGED <<dbVars, mgrVars, concVars, univVars, detVars, scanVars,
                           cfgVars, wrapVars, startVars, sendVars>>
    \/ \E th \in Threads : LimiterSleep(th)
            /\ UNCHANGED <<dbVars, mgrVars, concVars, univVars, detVars, scanVars,
                           cfgVars, wrapVars, startVars, sendVars>>
    \/ \E th \in Threads, lag \in 0..MaxLag : LimiterAppend(th, lag)
            /\ UNCHANGED <<dbVars, mgrVars, concVars, univVars, detVars, scanVars,
                           cfgVars, wrapVars, startVars, sendVars>>
    \/ \E th \in Threads : LimiterRelease(th)
            /\ UNCHANGED <<dbVars, mgrVars, concVars, univVars, detVars, scanVars,
                           cfgVars, wrapVars, startVars, sendVars>>
    \/ ClockAdvanceLimiter
            /\ UNCHANGED <<dbVars, mgrVars, concVars, univVars, detVars, scanVars,
                           cfgVars, wrapVars, startVars, sendVars>>

SpecLimiter == InitLimiter /\ [][NextLimiter]_vars

InitSender ==
    /\ InitDBVars /\ InitMgrVars /\ IdleConcVars
    /\ IdleRateVars /\ IdleUnivVars /\ IdleDetVars /\ IdleScanVars /\ IdleCfgVars
    /\ IdleWrapVars /\ IdleStartVars /\ IdleLimVars /\ InitSendVars

\* two threads, each calling send_alert once
NextSender ==
    \/ \E th \in Threads : SenderCanAlert(th)
            /\ UNCHANGED <<concVars, rateVars, univVars, detVars, scanVars,
                           cfgVars, wrapVars, startVars, limVars>>
    \/ \E th \in Threads, outcome \in NotifierOutcomes : SenderNotify(th, outcome)
            /\ UNCHANGED <<concVars, rateVars, univVars, detVars, scanVars,
                           cfgVars, wrapVars, startVars, limVars>>
    \/ \E th \in Threads : SenderRecord(th)
            /\ UNCHANGED <<concVars, rateVars, univVars, detVars, scanVars,
                           cfgVars, wrapVars, startVars, limVars>>
    \/ TickSender
            /\ UNCHANGED <<concVars, rateVars, univVars, detVars, scanVars,
                           cfgVars, wrapVars, startVars, limVars>>

SpecSender == InitSender /\ [][NextSender]_vars

---------------------------------------------------------------------------
(* Properties of the alert manager (SpecAlerts) *)

CallMade == call.signal # NoSignal
Returned == CallMade /\ pc = "idle"

\* C1, as claimed: for every (symbol, timeframe, barCloseTime) the notifier
\* delivers successfully at most one alert, over any sequence of send_alert
\* calls, notifier outcomes and restarts.
C1_AtMostOneDeliveryEver ==
    \A tr \in Triples : delivered[tr] <= 1

\* C1, amended: the notifier delivers at most one alert for a triple for as
\* long as the triple's row stays in the store; every further delivery is
\* preceded by a retention cleanup that deleted the row (run() does so at
\* startup for rows older than RetentionDays).  While a delivered triple has
\* not been purged since, its row is there (or is being written).
C1_AtMostOneDeliveryPerStoredRow ==
    \A tr \in Triples :
        /\ delivered[tr] <= 1 + purged[tr]
        /\ delivered[tr] > purged[tr] =>
                \/ \E r \in alerts : RowTriple(r) = tr
                \/ pc = "record" /\ SignalTriple(call.signal) = tr

\* a new process, its cooldown map still empty, has refused a triple that an
\* earlier process delivered
C1_Witness ==
    /\ Returned
    /\ call.existed /\ ~call.invoked /\ call.ret = "false"
    /\ delivered[SignalTriple(call.signal)] = 1
    /\ last_alert_times = EmptyMap

\* C2: a send_alert for a (symbol, timeframe) entered while less than the
\* cooldown has elapsed since this manager's last delivery for that pair
\* returns false without invoking the notifier, also for a bar that has no
\* row; once the elapsed time is equal to or greater than the cooldown, a
\* signal without a row passes can_alert.
C2_Cooldown ==
    CallMade =>
        /\ call.cooling =>
                /\ ~call.passed /\ ~call.invoked
                /\ pc = "idle" /\ call.ret = "false"
        /\ ~call.cooling /\ ~call.existed => call.passed

\* a different bar of a pair under cooldown, with no row of its own, was refused
C2_Witness ==
    /\ Returned
    /\ call.cooling /\ ~call.existed
    /\ ~call.invoked /\ call.ret = "false"

\* C3: the row is written and the cooldown clock stamped if and only if the
\* notifier reported success; nothing is written before the notifier call;
\* send_alert returns true exactly in that case; every row in the store
\* belongs to a delivered triple.
C3_RecordIffDelivered ==
    /\ CallMade =>
            /\ call.stored \/ call.cooled => call.invoked /\ call.outcome = "ok"
            /\ pc \in {"notify", "record"} =>
                    /\ alerts = entry.alerts
                    /\ last_alert_times = entry.times
                    /\ ~call.stored /\ ~call.cooled
            /\ pc = "record" => call.outcome = "ok"
            /\ pc = "idle" =>
                    /\ call.stored <=> call.outcome = "ok"
                    /\ call.cooled <=> call.outcome = "ok"
                    /\ call.ret = "true" <=> call.outcome = "ok"
    /\ \A r \in alerts : delivered[RowTriple(r)] >= 1

\* a call that delivered, wrote the row, stamped the clock and returned true
C3_Witness ==
    /\ Returned
    /\ call.outcome = "ok" /\ call.stored /\ call.cooled /\ call.ret = "true"
    /\ \E r \in alerts : RowTriple(r) = SignalTriple(call.signal) /\ r.created_at = now

\* C4: when the notifier reports failure, the store and the cooldown map are
\* what they were when the call began, send_alert returns false, and the same
\* signal passes can_alert again from then on.
C4_FailureLeavesTiersUntouched ==
    Returned /\ call.outcome = "fail" =>
        /\ call.frame
        /\ ~call.stored /\ ~call.cooled
        /\ call.ret = "false"
        /\ can_alert(alerts, last_alert_times, cooldown_minutes, now,
                     call.signal.symbol, call.signal.timeframe,
                     call.signal.candle_timestamp)

\* a failed delivery with rows in the store and a cooldown entry for the pair
C4_Witness ==
    /\ Returned
    /\ call.outcome = "fail"
    /\ alerts # {}
    /\ CooldownKey(call.signal.symbol, call.signal.timeframe) \in DOMAIN last_alert_times

\* C5: when a row for the signal's exact triple is in the store as the call
\* begins, send_alert returns false and the notifier is not called, whether
\* or not the pair is under cooldown.
C5_DedupHitSuppresses ==
    CallMade /\ call.existed =>
        /\ ~call.passed /\ ~call.invoked
        /\ pc = "idle" /\ call.ret = "false"

\* the row alone refused the call: the cooldown of the pair had run out
C5_Witness ==
    /\ Returned
    /\ call.existed /\ call.prior /\ ~call.cooling
    /\ cooldown_minutes > 0
    /\ ~call.invoked /\ call.ret = "false"

---------------------------------------------------------------------------
(* Properties of the store (SpecDB) *)

\* C6: the store holds at most one row per (symbol, timeframe, barCloseTime);
\* store_alert returns true and adds one row when the triple is absent, and
\* returns false and leaves the store unchanged when the triple is present,
\* whatever signature is passed.
C6_StoreUnique ==
    /\ \A r1, r2 \in alerts : RowTriple(r1) = RowTriple(r2) => r1 = r2
    /\ db_op.op = "store_alert" =>
            IF db_op.present
            THEN ~db_op.result /\ db_op.same
            ELSE db_op.result /\ db_op.kept /\ db_op.after = db_op.before + 1

\* a second store of a triple, under another signature, was refused
C6_Witness ==
    /\ db_op.op = "store_alert"
    /\ db_op.present /\ ~db_op.result
    /\ \E r \in alerts : RowTriple(r) = db_op.triple /\ r.signature # db_op.signature

\* C7: alert_exists returns true if and only if a row with exactly that
\* triple is stored, and changes nothing in the store.
C7_ExistsExactTriple ==
    db_op.op = "alert_exists" =>
        /\ db_op.result <=> db_op.present
        /\ db_op.same

\* the lookup said no while the three neighbours of the triple were stored
C7_Witness ==
    /\ db_op.op = "alert_exists"
    /\ ~db_op.result
    /\ {RowTriple(r) : r \in alerts} = DBTriples \ {db_op.triple}

---------------------------------------------------------------------------
(* Properties of the store under concurrent callers (SpecConc) *)

AllDone == \A th \in Threads : tpc[th] = "done"

\* thread w runs store_alert and thread c runs cleanup_old
OneStoreOneCleanup(w, c) ==
    /\ top[w].op = "store_alert"
    /\ top[c].op = "cleanup_old"

HasRow(tr) == \E r \in alerts : RowTriple(r) = tr

---------------------------------------------------------------------------
(* Properties of the rate limiter (SpecRate) *)

\* the calls that left the limiter in the 60 seconds that end with call i
InWindow(i) ==
    {j \in 1..Len(issued) :
        issued[i] - Window < issued[j] /\ issued[j] <= issued[i]}

\* C10: whatever mix of fetch operations is called, no 60-second window
\* (closed at its end, open at its start, as the limiter's own pruning)
\* holds more calls that left the limiter than rate_limit; the window kept by
\* the client is the one list all four operations append to.
C10_GlobalRateCeiling ==
    /\ \A i \in 1..Len(issued) : Cardinality(InWindow(i)) <= rate_limit
    /\ Len(request_times) <= Len(issued)
    /\ \A k \in 1..Len(request_times) :
            request_times[k] = issued[Len(issued) - Len(request_times) + k]

\* a call of one operation had to wait for the budget that calls of another
\* operation had used up
C10_Witness ==
    /\ fetch.endpoint # "none" /\ fetch.previous # "none"
    /\ fetch.endpoint # fetch.previous
    /\ ~fetch.raised
    /\ fetch.slept > 0
    /\ fetch.held = rate_limit

\* C11: a call that finds the window holding at least rate_limit timestamps
\* younger than 60 seconds sleeps exactly 60 - (now - oldest) seconds, which is
\* more than nothing and never a full window unless the oldest timestamp is
\* the present second, and leaves the limiter no earlier than 60 seconds after
\* that oldest timestamp; a call that finds fewer than rate_limit timestamps
\* does not sleep.
C11_WaitsForOldestOnly ==
    fetch.endpoint # "none" =>
        /\ (fetch.held >= rate_limit /\ fetch.held > 0) =>
                /\ ~fetch.raised
                /\ fetch.slept = Window - (fetch.entered - fetch.oldest)
                /\ fetch.slept > 0 /\ fetch.slept <= Window
                /\ fetch.entered + fetch.slept = fetch.oldest + Window
                /\ fetch.left >= fetch.oldest + Window
                /\ fetch.left <= fetch.oldest + Window + MaxLag
        /\ fetch.held < rate_limit =>
                /\ ~fetch.raised
                /\ fetch.slept = 0
                /\ fetch.left <= fetch.entered + MaxLag

\* a call found the budget used up by a call made 30 seconds earlier and
\* waited for the rest of that call's minute, not for a whole minute
C11_Witness ==
    /\ fetch.endpoint # "none" /\ ~fetch.raised
    /\ rate_limit > 0 /\ fetch.held >= rate_limit
    /\ fetch.entered - fetch.oldest >= 30
    /\ fetch.slept > 0 /\ fetch.slept < Window

\* C12: every call that enters _check_rate_limit returns from it and leaves
\* exactly one timestamp of its own, the last of request_times, whatever
\* rate_limit the configuration holds.
C12_NeverDropsARequest ==
    fetch.endpoint # "none" =>
        /\ ~fetch.raised
        /\ Len(request_times) = fetch.held + 1
        /\ request_times[Len(request_times)] = fetch.left

---------------------------------------------------------------------------
(* Properties of the fetch operations (SpecFetch) *)

\* C13: whenever the exchange fails a request (network error, timeout,
\* non-2xx status, API error body, malformed or absent data) the operation
\* returns its empty result and no exception leaves api_call.wrapper.
C13_FailureGivesEmptyResult ==
    (fetch.requested /\ fetch.upstream # "ok") =>
        /\ fetch.exc = "none"
        /\ fetch.value = "empty"

\* C14: get_volume_for_period with an interval outside {1h, 15m, 5m, 1m}
\* returns None, sends no request and raises nothing.
C14_UnsupportedIntervalIsAbsent ==
    (fetch.endpoint = "volume_period" /\ fetch.interval \notin {"1h", "15m", "5m", "1m"}) =>
        /\ ~fetch.requested
        /\ fetch.exc = "none"
        /\ fetch.value = "empty"

\* C15: the candle count sent by get_volume_for_period for a supported interval
\* is hours * k capped at 1500, with k = 1, 4, 12, 60 for 1h, 15m, 5m, 1m: never
\* more than 1500, and hours * k whenever that is at most 1500.
C15_CandleCountCapped ==
    (fetch.endpoint = "volume_period" /\ fetch.requested) =>
        LET k == CASE fetch.interval = "1h" -> 1
                   [] fetch.interval = "15m" -> 4
                   [] fetch.interval = "5m" -> 12
                   [] fetch.interval = "1m" -> 60
        IN  /\ fetch.limit <= 1500
            /\ fetch.hours * k <= 1500 => fetch.limit = fetch.hours * k
            /\ fetch.hours * k > 1500 => fetch.limit = 1500

\* a request for 26 hours of one-minute candles was capped, after one for 25
\* hours would not have been
C15_Witness ==
    /\ fetch.endpoint = "volume_period" /\ fetch.requested
    /\ fetch.interval = "1m" /\ fetch.hours = 26
    /\ fetch.limit = 1500

---------------------------------------------------------------------------
(* Properties of the symbol universe (SpecUniverse) *)

\* C16: a get_liquid_perpetuals call without force_refresh that finds a
\* non-empty cached liquid set younger than cache_ttl performs no fetch
\* operation, returns exactly the cached set and leaves the symbol map, the
\* liquid set and last_update as they were; a second such call therefore
\* returns the same set.
C16_CacheHitIsIdempotent ==
    (/\ ucall.outcome # "none"
     /\ ~ucall.force
     /\ ucall.entry.liquid_symbols # {}
     /\ ucall.now - ucall.entry.last_update < cache_ttl) =>
        /\ upc = "idle"
        /\ ucall.outcome = "hit"
        /\ ucall.fetches = 0
        /\ Len(issued) = ucall.issued
        /\ ucall.returned = ucall.entry.liquid_symbols
        /\ Cache = ucall.entry

\* a call 30 seconds after a refresh that found a liquid symbol was answered
\* from the cache
C16_Witness ==
    /\ ucall.outcome = "hit"
    /\ ucall.returned # {}
    /\ ucall.now - ucall.entry.last_update >= 30
    /\ ucall.issued >= 2

\* C17: when a refresh is attempted and the ticker fetch or the exchange-info
\* fetch returns empty, the call returns the cached liquid set and the symbol
\* map, the liquid set and last_update stay as they were.
C17_EmptyFetchKeepsCache ==
    (ucall.tickers_res = "empty" \/ ucall.info_res = "empty") =>
        /\ upc = "idle"
        /\ ucall.outcome = "kept"
        /\ ucall.returned = ucall.entry.liquid_symbols
        /\ Cache = ucall.entry

\* a forced or expired refresh of a non-empty cache got its tickers, then an
\* empty exchange info
C17_Witness ==
    /\ ucall.outcome = "kept"
    /\ ucall.tickers_res = "data" /\ ucall.info_res = "empty"
    /\ ucall.fetches = 2
    /\ ucall.entry.liquid_symbols # {}
    /\ ucall.entry.last_update < ucall.now

\* C18: after a refresh that went through, every ticker of a symbol that the
\* exchange info lists as PERPETUAL and TRADING has a SymbolInfo whose
\* avg_hourly_volume is quoteVolume / 24, and is in the liquid set exactly if
\* that average is at least min_hourly_volume; the map and the liquid set hold
\* no symbol that is not perpetual, not trading or without a ticker.
C18_FilterAndLiquidity ==
    (upc = "idle" /\ ucall.outcome = "refreshed") =>
        LET eligible ==
                {s \in DOMAIN ucall.tickers \cap DOMAIN ucall.exchange_info :
                    /\ ucall.exchange_info[s].contractType = "PERPETUAL"
                    /\ ucall.exchange_info[s].status = "TRADING"}
        IN  /\ DOMAIN symbols = eligible
            /\ liquid_symbols \subseteq eligible
            /\ \A s \in eligible :
                    /\ symbols[s].avg_hourly_volume.num * 24
                            = ucall.tickers[s] * symbols[s].avg_hourly_volume.den
                    /\ s \in liquid_symbols <=>
                            symbols[s].avg_hourly_volume.num
                                >= min_hourly_volume * symbols[s].avg_hourly_volume.den
                    /\ symbols[s].is_liquid <=> s \in liquid_symbols

\* a refresh met a ticker exactly at the minimum, which is liquid, and
\* dropped the ticker of a symbol that is not trading
C18_Witness ==
    /\ upc = "idle" /\ ucall.outcome = "refreshed"
    /\ DOMAIN ucall.tickers = {"BTCUSDT", "ETHUSDT"}
    /\ ucall.tickers["BTCUSDT"] = 24 * min_hourly_volume
    /\ "BTCUSDT" \in liquid_symbols
    /\ "ETHUSDT" \in DOMAIN ucall.exchange_info
    /\ ucall.exchange_info["ETHUSDT"].status # "TRADING"
    /\ "ETHUSDT" \notin DOMAIN symbols

\* C19: whatever position a refresh is at, a reader finds the liquid set to be
\* the set of the symbols whose SymbolInfo in the map is liquid: is_liquid
\* and get_symbol_info never answer from two different refreshes.
C19_MapAndLiquidSetAgree ==
    \A symbol \in Symbols :
        is_liquid(symbol) <=> (\E info \in get_symbol_info(symbol) : info.is_liquid)

---------------------------------------------------------------------------
(* Properties of the momentum detector (SpecDetector) *)

\* C20: for klines whose baseline volume and last open price are not zero,
\* analyze_symbol returns a MomentumSignal exactly if the volume spike of the
\* last candle over the mean of the candles before it (8 at most),
\* (current / average - 1) * 100, is at least the applicable volume threshold
\* and the price change of the last candle, (close / open - 1) * 100, is at
\* least the price threshold, both inclusively; the signal carries the two
\* percentages.
C20_SignalIffBothThresholds ==
    (dpc = "idle" /\ dcall.klines_res = "data") =>
        LET n == Len(dcall.klines)
            before == {i \in 1..(n - 1) : i >= n - 8}
            total == SumVolume(dcall.klines, n - Cardinality(before), n - 1)
            last == dcall.klines[n]
            applicable == IF dcall.period_volume > 1250 * volume_window_hours
                          THEN volume_threshold ELSE 250
            \* the two comparisons, multiplied out by the positive denominators
            volume_ok == (last.volume * Cardinality(before) - total) * 100
                            >= applicable * total
            price_ok == (last.close - last.open) * 100 >= price_threshold * last.open
        IN  (total > 0 /\ last.open > 0) =>
                /\ dcall.result.kind = "signal" <=> (volume_ok /\ price_ok)
                /\ dcall.result.kind = "signal" =>
                        /\ dcall.result.signal.volume_spike_pct.num * total
                            = (last.volume * Cardinality(before) - total) * 100
                                * dcall.result.signal.volume_spike_pct.den
                        /\ dcall.result.signal.price_change_pct.num * last.open
                            = (last.close - last.open) * 100
                                * dcall.result.signal.price_change_pct.den

\* C21: for klines whose volumes before the last candle are all zero, or
\* whose last candle opens at a price of zero, analyze_symbol returns None
\* (and so raises no division error).
C21_ZeroGuard ==
    (dpc = "idle" /\ dcall.klines_res = "data") =>
        LET n == Len(dcall.klines)
            historical_zero == n > 1 /\ \A i \in 1..(n - 1) : dcall.klines[i].volume = 0
            open_zero == dcall.klines[n].open = 0
        IN  (historical_zero \/ open_zero) => dcall.result.kind = "none"

\* C22: a response of fewer klines than were asked for, with a baseline
\* volume and a last open price that are not zero, is decided from the last
\* candle against the mean of the candles before it and never raises; 8
\* klines with volumes 100 seven times and then 1000, a last open of 100 and
\* a close of 106 give a signal with a volume spike of 900 percent and a
\* price change of 6 percent.
C22_ShortWindowIsDecided ==
    (dpc = "idle" /\ dcall.klines_res = "data") =>
        LET n == Len(dcall.klines)
            last == dcall.klines[n]
            before == {i \in 1..(n - 1) : i >= n - 8}
            total == SumVolume(dcall.klines, n - Cardinality(before), n - 1)
            scenario_A == /\ n = 8
                          /\ \A i \in 1..7 : dcall.klines[i].volume = 100
                          /\ last.volume = 1000
                          /\ last.open = 100
                          /\ last.close = 106
        IN  (n < dcall.asked /\ total > 0 /\ last.open > 0) =>
                /\ dcall.result.kind # "raised"
                /\ scenario_A =>
                        /\ dcall.result.kind = "signal"
                        /\ dcall.result.signal.volume_spike_pct.num
                            = 900 * dcall.result.signal.volume_spike_pct.den
                        /\ dcall.result.signal.price_change_pct.num
                            = 6 * dcall.result.signal.price_change_pct.den

\* C23: the candle_timestamp of a returned MomentumSignal is the close time
\* of the last kline of the response, the candle that was evaluated.
C23_TimestampIsCloseTime ==
    (dpc = "idle" /\ dcall.result.kind = "signal") =>
        dcall.result.signal.candle_timestamp
            = dcall.klines[Len(dcall.klines)].close_time

\* C24: the volume threshold applied is the configured one when the period
\* volume divided by the window hours is strictly above 1250 and 250
\* otherwise, an average of exactly 1250 included; a call that reaches the
\* predicate returns a signal exactly if the spike is at least that threshold
\* and the price change at least the configured price threshold, whichever
\* volume threshold applies.
C24_ThresholdByLiquidity ==
    dcall.volume_res = "data" =>
        LET applicable == IF dcall.period_volume > 1250 * volume_window_hours
                          THEN volume_threshold ELSE 250
            n == Len(dcall.klines)
            last == dcall.klines[n]
            total == SumVolume(dcall.klines, n - 8, n - 1)
        IN  /\ dcall.threshold = applicable
            /\ (dpc = "idle" /\ dcall.klines_res = "data"
                    /\ dcall.result.kind \in {"signal", "none"} /\ last.open > 0) =>
                    (dcall.result.kind = "signal" <=>
                        /\ (last.volume * 8 - total) * 100 >= applicable * total
                        /\ (last.close - last.open) * 100 >= price_threshold * last.open)

\* a period volume of exactly 1250 an hour, and a spike of 249 percent with a
\* price change of 6 percent that the configured threshold of 150 would let
\* through, decided as no signal
C24_Witness ==
    /\ dpc = "idle"
    /\ dcall.volume_res = "data"
    /\ dcall.period_volume = 1250 * volume_window_hours
    /\ volume_threshold < 250
    /\ dcall.threshold = 250
    /\ dcall.klines_res = "data"
    /\ Len(dcall.klines) >= 33
    /\ LET n == Len(dcall.klines)
           total == SumVolume(dcall.klines, n - 8, n - 1)
       IN  /\ total > 0
           /\ (dcall.klines[n].volume * 8 - total) * 100 >= volume_threshold * total
           /\ (dcall.klines[n].volume * 8 - total) * 100 < 250 * total
           /\ (dcall.klines[n].close - dcall.klines[n].open) * 100
                >= price_threshold * dcall.klines[n].open
    /\ dcall.result.kind = "none"

\* C25: the result depends on the last 9 klines only: any other response
\* with the same last 9 klines, whatever its older klines, gives the result
\* this response gave.
C25_OnlyLastNineDecide ==
    (dpc = "idle" /\ dcall.klines_res = "data" /\ Len(dcall.klines) >= 9) =>
        \A other \in KlineResponses :
            LET n == Len(dcall.klines)
                m == Len(other)
            IN  (m >= 9 /\ \A j \in 0..8 : other[m - j] = dcall.klines[n - j]) =>
                    analyze(dcall.symbol, DetectorTimeframe, other, dcall.period_volume,
                            volume_window_hours, volume_threshold, price_threshold)
                        = dcall.result

\* C26: a call whose period volume came back as None has returned None
\* after that one fetch, the klines never asked for; a call whose klines came
\* back as None or as an empty list has returned None; neither has raised.
C26_AbsentDataGivesNone ==
    /\ dcall.volume_res = "empty" =>
            /\ dpc = "idle"
            /\ dcall.result = NoDetection
            /\ dcall.fetches = 1
            /\ dcall.klines_res = "none"
            /\ fetch.endpoint = "volume_period"
    /\ (dpc = "idle" /\ dcall.klines_res = "empty") =>
            /\ dcall.result = NoDetection
            /\ dcall.fetches = 2

\* a call that ended on a period volume of None after a failed request
C26_Witness ==
    /\ dpc = "idle"
    /\ dcall.symbol \in Symbols
    /\ dcall.volume_res = "empty"
    /\ fetch.upstream = "timeout"
    /\ dcall.fetches = 1
    /\ dcall.result = NoDetection

\* C27: every call of send_alert that has ended has returned a boolean, and
\* False whenever the notifier did not deliver, its failure while the message
\* is built included.
C27_SendAlertReturnsBoolean ==
    (pc = "idle" /\ call.signal # NoSignal) =>
        /\ call.ret \in {"true", "false"}
        /\ (call.invoked /\ call.outcome # "ok") => call.ret = "false"

---------------------------------------------------------------------------
(* Properties of the scanner (SpecScanner, SpecScannerFair) *)

\* C28: the scan loop does not end by itself: a cycle that is running ends,
\* completed or left by an exception at some symbol, with the scanner in its
\* sleep; the sleep ends with the start of the next cycle; and no step takes
\* the scanner from the loop to the end of run.
C28_ScanLoopNeverEnds ==
    /\ (spc = "scanning") ~> (spc = "idle")
    /\ (spc = "idle") ~> (spc = "scanning")
    /\ [][(spc \in {"scanning", "idle"}) => (spc' \in {"scanning", "idle"})]_vars

\* a cycle left by an exception at a symbol, the scanner in its sleep
C28_Witness ==
    /\ spc = "idle"
    /\ scall.symbol \in Range(scanner_symbols)
    /\ scall.exc # "none"
    /\ scall.caught
    /\ Len(scanned) < Len(scanner_symbols)

\* C29: the symbols passed to analyze_symbol are symbols of the scan list,
\* which are liquid symbols of the universe as the refresh of
\* initialize_symbols left it, each with a ticker of at least the minimum
\* hourly volume; the symbols passed to send_alert are among those analyzed;
\* a symbol whose hourly average is below the minimum is passed to neither.
C29_OnlyLiquidSymbolsScanned ==
    /\ analyzed \subseteq Range(scanner_symbols)
    /\ alerted \subseteq analyzed
    /\ \A s \in Range(scanner_symbols) :
            /\ s \in liquid_symbols
            /\ s \in ucall.new_liquid_symbols
            /\ s \in DOMAIN ucall.tickers
            /\ ucall.tickers[s] >= 24 * min_hourly_volume
    /\ \A s \in DOMAIN ucall.tickers :
            ucall.tickers[s] < 24 * min_hourly_volume => s \notin analyzed \cup alerted

\* a completed cycle over a universe with one symbol below the minimum and
\* one at it: the second analyzed and alerted, the first not
C29_Witness ==
    /\ spc = "idle"
    /\ scall.complete
    /\ \E s, t \in DOMAIN symbols :
            /\ ucall.tickers[s] < 24 * min_hourly_volume
            /\ ~symbols[s].is_liquid
            /\ s \notin analyzed
            /\ ucall.tickers[t] >= 24 * min_hourly_volume
            /\ t \in analyzed
            /\ t \in alerted

\* C37: an exception at a symbol ends the cycle there: the scanner is in its
\* sleep, the symbols scan_symbol was called with in that cycle are the
\* list up to the symbol that raised and none after it, and the sleep is
\* left only for a new cycle that begins at the head of the list.
C37_ExceptionAbortsCycle ==
    /\ [](scall.exc # "none" =>
            /\ spc = "idle"
            /\ scanned # <<>>
            /\ scanned = SubSeq(scanner_symbols, 1, Len(scanned))
            /\ scanned[Len(scanned)] = scall.symbol)
    /\ [][(spc = "idle") => (spc' = "scanning" /\ scanned' = <<>>)]_vars

\* a cycle over two symbols that ended at the first
C37_Witness ==
    /\ spc = "idle"
    /\ scall.exc # "none"
    /\ Len(scanned) = 1
    /\ Len(scanner_symbols) = 2
    /\ scanner_symbols[2] \notin analyzed

\* C38: inside the loop no step changes the scan list or calls the universe:
\* the list, the universe's cache and its last call stay as
\* initialize_symbols left them and no request is issued, and every cycle
\* calls scan_symbol along the list in its order, also once the cache TTL has
\* run out and also for an empty list.
C38_ScanListIsFixed ==
    /\ [][(spc \in {"scanning", "idle"}) =>
            /\ scanner_symbols' = scanner_symbols
            /\ UNCHANGED <<symbols, liquid_symbols, last_update, upc, ucall>>
            /\ UNCHANGED <<issued, fetch>>]_vars
    /\ [](spc \in {"scanning", "idle"} =>
            /\ Len(scanned) <= Len(scanner_symbols)
            /\ scanned = SubSeq(scanner_symbols, 1, Len(scanned)))

\* a cycle over a list of two symbols, completed after the TTL of the cache
\* the list came from had run out
C38_Witness ==
    /\ spc = "idle"
    /\ scall.complete
    /\ ucall.outcome = "refreshed"
    /\ clock - last_update >= cache_ttl
    /\ scall.at - last_update >= cache_ttl
    /\ Len(scanner_symbols) = 2
    /\ scanned = scanner_symbols

---------------------------------------------------------------------------
(* Properties of the configuration (SpecConfig) *)

\* C30: validate, called by load_config or directly, raises exactly if the
\* webhook URL is missing or empty, the lookback is below 2, the cooldown is
\* negative, or the minimum hourly volume or the volume threshold is
\* negative; load_config returns no other Config than one that passes, and
\* the default Config with a webhook URL passes.
C30_LoadConfigValidates ==
    cfg.op \in {"load_config", "validate"} =>
        LET out_of_range ==
                \/ config.discord_webhook_url = ""
                \/ config.lookback_periods < 2
                \/ config.cooldown_minutes < 0
                \/ config.min_hourly_volume < 0
                \/ config.volume_zscore_threshold < 0
        IN  /\ cfg.raised # "none" <=> out_of_range
            /\ cfg.returned <=> ~out_of_range
            /\ (\E url \in WebhookURLs \ {""} :
                    config = [DefaultConfig EXCEPT !.discord_webhook_url = url])
                    => cfg.raised = "none"

---------------------------------------------------------------------------
(* Properties of the instrumentation (SpecWrapper) *)

\* C31: a call through api_call.wrapper ends as the undecorated function
\* ends, with the same value or the same exception, whether or not the
\* extraction of the parameters or the recording of the metric failed; a
\* failure of the metrics sink leaves the collector as it was and is the
\* only thing that keeps a metric from being recorded.
C31_WrapperIsTransparent ==
    wcall.endpoint # "none" =>
        /\ wcall.wrapped = wcall.unwrapped
        /\ wcall.recorded <=> wcall.sink = "ok"
        /\ wcall.sink = "fails" => collector = wcall.before
        /\ wcall.sink = "ok" => collector.total_calls = wcall.before.total_calls + 1

\* a call that returned data although the parameters could not be extracted
\* and the metrics sink failed
C31_Witness ==
    /\ wcall.endpoint = "klines"
    /\ wcall.extraction = "fails"
    /\ wcall.sink = "fails"
    /\ wcall.unwrapped = Return("data")
    /\ wcall.wrapped = Return("data")
    /\ ~wcall.recorded

---------------------------------------------------------------------------
(* Properties of the startup (SpecStartup) *)

\* C32: once load_config has returned a Config and MomentumScanner(config)
\* has been called, every component is built and no exception has left the
\* constructor, so that run can refresh the universe, clean up and start the
\* first cycle.
C32_StartupReachesScanning ==
    (cfg.returned /\ startup.pc \notin {"main", "loaded"}) =>
        /\ startup.pc = "constructed"
        /\ startup.exc = "none"
        /\ startup.built = Len(Components)

---------------------------------------------------------------------------
(* Properties of concurrent store calls (SpecConc) *)

\* both threads run store_alert with the same (symbol, timeframe, bar_close_time)
BothStoreSameKey ==
    /\ \A th \in Threads : top[th].op = "store_alert"
    /\ top[1].triple = top[2].triple

\* C35 as stated: when two store_alert calls for the same key have run
\* concurrently, exactly one has returned True and the other False, and the
\* table holds exactly one row for the key.
C35_ExactlyOneReturnsTrue ==
    (BothStoreSameKey /\ AllDone) =>
        /\ Cardinality({th \in Threads : tres[th].ok}) = 1
        /\ Cardinality({r \in alerts : RowTriple(r) = top[1].triple}) = 1

\* C35: when two store_alert calls for the same (symbol, timeframe,
\* bar_close_time) run concurrently, the calls are serialised by the lock and
\* the UNIQUE constraint: the call that runs second returns False, the call
\* that runs first returns True exactly when the key was not stored before it,
\* so for a key not yet stored exactly one call returns True and the other
\* False, and the table ends with exactly one row for the key.
C35_ConcurrentStoresOneWins ==
    (BothStoreSameKey /\ AllDone) =>
        LET first  == order[1]
            second == order[2]
        IN  /\ Cardinality({r \in alerts : RowTriple(r) = top[1].triple}) = 1
            /\ ~tres[second].ok
            /\ tres[first].ok <=> ~tres[first].existed
            /\ ~tres[first].existed =>
                   Cardinality({th \in Threads : tres[th].ok}) = 1

\* two calls with different signatures raced for a key that was not stored;
\* the first one won
C35_Witness ==
    /\ BothStoreSameKey
    /\ AllDone
    /\ top[1].signature # top[2].signature
    /\ ~tres[order[1]].existed
    /\ tres[order[1]].ok
    /\ ~tres[order[2]].ok
    /\ order = <<2, 1>>

---------------------------------------------------------------------------
(* Properties of the limiter under concurrent callers (SpecLimiter) *)

\* C34: the body of _check_rate_limit is one critical section.  At most one
\* thread is inside it; what a thread leaves in request_times is what the
\* sequential limiter makes of the list and the clock the thread found on
\* entry (nothing of another caller in between); request_times is the tail of
\* all timestamps ever recorded and the ones missing from it are at least 60
\* seconds old; and no 60-second window holds more recorded timestamps than
\* rate_limit.
C34_LimiterIsOneCriticalSection ==
    /\ Cardinality(InLimiter) <= 1
    /\ \A th \in Threads :
            /\ lpc[th] = "recorded" =>
                   LET c   == lcall[th]
                       seq == check_rate_limit(c.times, rate_limit, c.t,
                                               c.at - c.t - c.slept)
                   IN  /\ ~seq.raised
                       /\ seq.slept = c.slept
                       /\ request_times = seq.times
            /\ lpc[th] = "raised" =>
                   check_rate_limit(lcall[th].times, rate_limit, lcall[th].t, 0).raised
    /\ Len(request_times) <= Len(issued)
    /\ \A k \in 1..Len(request_times) :
            request_times[k] = issued[Len(issued) - Len(request_times) + k]
    /\ \A i \in 1..(Len(issued) - Len(request_times)) : clock - issued[i] >= Window
    /\ \A i \in 1..Len(issued) : Cardinality(InWindow(i)) <= rate_limit

\* a thread had to wait for the lock while the other slept for the budget, and
\* has now recorded its own timestamp after a sleep of its own
C34_Witness ==
    \E th \in Threads :
        /\ lpc[th] = "recorded"
        /\ lcall[th].slept > 0
        /\ ldone[th] = 0
        /\ \E other \in Threads \ {th} : ldone[other] > 0
        /\ Len(lcall[th].times) = rate_limit
        /\ Len(issued) > rate_limit

---------------------------------------------------------------------------
(* Properties of send_alert under concurrent callers (SpecSender) *)

\* both threads call send_alert with the same signal
BothSendSameSignal == ccall[1].signal = ccall[2].signal

\* C33: when two send_alert calls for the same (symbol, timeframe,
\* bar close time) run concurrently, the notifier is invoked for at most one of
\* them once it has delivered: no second call gets past the check of the two
\* tiers after the first one did and before the delivery is recorded.
C33_AtMostOneDeliveryUnderInterleaving ==
    BothSendSameSignal =>
        Cardinality({th \in Threads : ccall[th].outcome = "ok"}) <= 1

\* C36: a call that can_alert suppresses has a row of its own triple in the
\* store or a delivery to its own (symbol, timeframe) pair inside the
\* cooldown; a delivery to a different pair suppresses nothing.
C36_CooldownIsPerPair ==
    \A th \in Threads :
        (cpc[th] # "start" /\ ~ccall[th].passed) =>
            (ccall[th].existed \/ ccall[th].cooling)

====
